---------------------------- MODULE Spec2Model ----------------------------
(***************************************************************************)
(* Newsletter digest pipeline (tadeasraha/newsletter).                     *)
(*                                                                         *)
(* Text is modelled at character level: a Python str is a sequence of      *)
(* one-character strings, so that lower-casing, trimming, substring and    *)
(* regular-expression searches are computed the way the code computes      *)
(* them.  Python's None is the value None for optional strings and the     *)
(* empty option <<>> (against <<p>>) for optional integers.  A character   *)
(* outside ASCII is written as its code point, "U011B".                    *)
(***************************************************************************)
EXTENDS Integers, Sequences, FiniteSets, TLC

VARIABLES
    mailbox,          \* the messages of INBOX the IMAP search returns, in uid order
    priority_file,    \* the CSV file at PRIORITY_FILE
    pc,               \* position of main() (src/src/main.py:466-598)
    run,              \* number of the current run of main()
    clock,            \* the wall clock read by datetime.utcnow()
    priority_map,     \* main(): priority_map (line 474)
    msgs,             \* main(): msgs, the fetched batch (line 483)
    unique,           \* main(): unique (line 486)
    selected,         \* main(): selected (line 496)
    selected_sorted,  \* main(): selected_sorted (line 534)
    idx,              \* index of the message the running loop is at
    skipped,          \* uids whose selection raised: the log of lines 528-529
    cache,            \* the files of CACHE_DIR: safe_id -> characters
    artifacts,        \* the files of data/messages: safe_id -> what was written
    digest,           \* the messages rendered into data/test_digest.html
    trace,            \* what the emit loop of this run did, message by message
    faults,           \* failures of library and file calls so far
    first_run,        \* how the first run of main() ended, once it has
    call,             \* unit harness: the function applied and its arguments
    ret,              \* unit harness: what the function returned
    imap              \* fetch_new_messages (src/src/imap_ingest.py:30-172): the
                      \* folder on the server, the position and the result

vars == <<mailbox, priority_file, pc, run, clock, priority_map, msgs, unique,
          selected, selected_sorted, idx, skipped, cache, artifacts, digest,
          trace, faults, first_run, call, ret, imap>>

pipelineVars == <<mailbox, priority_file, pc, run, clock, priority_map, msgs,
                  unique, selected, selected_sorted, idx, skipped, cache,
                  artifacts, digest, trace, faults, first_run>>

-----------------------------------------------------------------------------
(* Python values                                                           *)

None == <<"None">>
NoneInt == <<>>
Some(p) == <<p>>

-----------------------------------------------------------------------------
(* str methods and re searches used by the code                            *)

UpperChars == <<"A","B","C","D","E","F","G","H","I","J","K","L","M",
                "N","O","P","Q","R","S","T","U","V","W","X","Y","Z">>
LowerChars == <<"a","b","c","d","e","f","g","h","i","j","k","l","m",
                "n","o","p","q","r","s","t","u","v","w","x","y","z">>

Alphabet == 1..Len(UpperChars)

\* the lower-case letter of each upper-case ASCII letter
LowerTable ==
    [c \in {UpperChars[k] : k \in Alphabet} |->
        LowerChars[CHOOSE k \in Alphabet : UpperChars[k] = c]]

LowerChar(c) ==
    IF c \in DOMAIN LowerTable
    THEN LowerTable[c]
    ELSE CASE c = "U010E" -> "U010F"
           [] c = "U011A" -> "U011B"
           [] c = "U0158" -> "U0159"
           [] OTHER -> c

\* str.lower()
Lower(s) == SubSeq([k \in 1..Len(s) |-> LowerChar(s[k])], 1, Len(s))

\* Op applied to the value of v: Python evaluates an argument before the call
Strict(Op(_), v) == CHOOSE r \in {Op(x) : x \in {v}} : TRUE

IsSpace(c) == c \in {" ", "\n", "\t", "\r"}

\* str.strip()
Strip(s) ==
    IF \A k \in 1..Len(s) : IsSpace(s[k]) THEN <<>>
    ELSE LET lo == CHOOSE k \in 1..Len(s) :
                       ~IsSpace(s[k]) /\ \A j \in 1..(k - 1) : IsSpace(s[j])
             hi == CHOOSE k \in 1..Len(s) :
                       ~IsSpace(s[k]) /\ \A j \in (k + 1)..Len(s) : IsSpace(s[j])
         IN  SubSeq(s, lo, hi)

\* the literal pat occurs in s at position k
MatchAt(s, k, pat) ==
    /\ k >= 1
    /\ k + Len(pat) - 1 <= Len(s)
    /\ \A j \in 1..Len(pat) : s[k + j - 1] = pat[j]

\* first position >= from at which the literal pat occurs in s, 0 if none
Find(s, pat, from) ==
    LET last == Len(s) - Len(pat) + 1
    IN  IF \E k \in from..last : MatchAt(s, k, pat)
        THEN CHOOSE k \in from..last :
                 /\ MatchAt(s, k, pat)
                 /\ \A j \in from..(k - 1) : ~MatchAt(s, j, pat)
        ELSE 0

\* re.search of a literal pattern
Contains(s, pat) == Find(s, pat, 1) # 0


\* the characters of s at the positions of keep, in order
RECURSIVE KeepIdx(_, _, _, _)
KeepIdx(s, keep, lo, hi) ==
    IF lo > hi THEN <<>>
    ELSE IF lo = hi THEN (IF lo \in keep THEN <<s[lo]>> ELSE <<>>)
    ELSE LET mid == (lo + hi) \div 2
         IN  KeepIdx(s, keep, lo, mid) \o KeepIdx(s, keep, mid + 1, hi)

\* the concatenation of the strings ss[lo..hi], sep between them
RECURSIVE JoinRange(_, _, _, _)
JoinRange(ss, sep, lo, hi) ==
    IF lo > hi THEN <<>>
    ELSE IF lo = hi THEN ss[lo]
    ELSE LET mid == (lo + hi) \div 2
         IN  JoinRange(ss, sep, lo, mid) \o sep \o JoinRange(ss, sep, mid + 1, hi)

\* sep.join(ss)
Join(ss, sep) == JoinRange(ss, sep, 1, Len(ss))

\* position of the first line break at or after from, Len(s) + 1 if none:
\* where "$" matches under re.MULTILINE
FirstEol(s, from) ==
    IF \A k \in from..Len(s) : s[k] # "\n" THEN Len(s) + 1
    ELSE CHOOSE k \in from..Len(s) :
             s[k] = "\n" /\ \A j \in from..(k - 1) : s[j] # "\n"

\* first position >= from at which one of the literals lits occurs in s
FindAny(s, lits, from) ==
    LET hits == {k \in from..Len(s) : \E lit \in lits : MatchAt(s, k, lit)}
    IN  IF hits = {} THEN 0 ELSE CHOOSE k \in hits : \A j \in hits : k <= j

\* re.sub(r"(?is)LIT.*?$", "", s, flags=re.MULTILINE) for LIT one of lits
\* (lower-case literals without line breaks): every match runs from the
\* literal to the end of its line; low is Lower(s)
RECURSIVE RemoveToEolFrom(_, _, _, _)
RemoveToEolFrom(s, low, lits, from) ==
    LET start == FindAny(low, lits, from)
    IN  IF start = 0 THEN SubSeq(s, from, Len(s))
        ELSE SubSeq(s, from, start - 1)
                 \o RemoveToEolFrom(s, low, lits, FirstEol(s, start))

RemoveToEol(s, lits) == RemoveToEolFrom(s, Lower(s), lits, 1)

\* re.sub(r"(?is)LIT.*$", "", s, flags=re.MULTILINE): the greedy ".*" with
\* DOTALL runs to the end of the text
RemoveToEnd(s, lits) ==
    LET start == FindAny(Lower(s), lits, 1)
    IN  IF start = 0 THEN s ELSE SubSeq(s, 1, start - 1)

\* re.sub(r"\n{3,}", "\n\n", s)
CollapseNewlines(s) ==
    LET keep == {k \in 1..Len(s) :
                    ~(s[k] = "\n" /\ k >= 3 /\ s[k - 1] = "\n" /\ s[k - 2] = "\n")}
    IN  KeepIdx(s, keep, 1, Len(s))

Digits == <<"0","1","2","3","4","5","6","7","8","9">>

IsDigit(c) == \E k \in 1..Len(Digits) : Digits[k] = c

DigitVal(c) == (CHOOSE k \in 1..Len(Digits) : Digits[k] = c) - 1

Letters == {UpperChars[k] : k \in Alphabet} \cup {LowerChars[k] : k \in Alphabet}

\* \w of the re module, for the characters of the model
IsWordChar(c) == c \in Letters \/ c = "_" \/ IsDigit(c)

\* re.search(r"\bWORD\b", s, flags=re.I) for a lower-case word
ContainsWord(s, word) ==
    LET low == Lower(s)
    IN  \E k \in 1..Len(s) :
            /\ MatchAt(low, k, word)
            /\ k = 1 \/ ~IsWordChar(s[k - 1])
            /\ k + Len(word) > Len(s) \/ ~IsWordChar(s[k + Len(word)])

\* Python's "x or ''" for an optional string
OrEmpty(v) == IF v = None THEN <<>> ELSE v

-----------------------------------------------------------------------------
(* src/data/src/filter.py                                                  *)

\* int(pr) does not raise ValueError: an optional sign and decimal digits
IsIntLiteral(pr) ==
    LET body == IF pr # <<>> /\ pr[1] \in {"+", "-"} THEN Tail(pr) ELSE pr
    IN  body # <<>> /\ \A k \in 1..Len(body) : IsDigit(body[k])

RECURSIVE DigitsValue(_)
DigitsValue(ds) ==
    IF ds = <<>> THEN 0
    ELSE 10 * DigitsValue(SubSeq(ds, 1, Len(ds) - 1)) + DigitVal(ds[Len(ds)])

\* int(pr)
ParseInt(pr) ==
    IF pr[1] = "-" THEN 0 - DigitsValue(Tail(pr))
    ELSE IF pr[1] = "+" THEN DigitsValue(Tail(pr))
    ELSE DigitsValue(pr)

EmptyMap == [k \in {} |-> 0]

\* mp[email] = p
MapPut(mp, k, v) ==
    [x \in (DOMAIN mp) \cup {k} |-> IF x = k THEN v ELSE mp[x]]

\* the loop over the rows of the CSV reader, filter.py:18-27
RECURSIVE load_rows(_, _)
load_rows(rows, mp) ==
    IF rows = <<>> THEN mp
    ELSE LET row == Head(rows)
             email == Lower(Strip(OrEmpty(row.email)))
             pr == Strip(OrEmpty(row.priority))
         IN  IF email = <<>> \/ pr = <<>> THEN load_rows(Tail(rows), mp)
             ELSE IF ~IsIntLiteral(pr) THEN load_rows(Tail(rows), mp)
             ELSE load_rows(Tail(rows), MapPut(mp, email, ParseInt(pr)))

\* a plausible slip: of two rows with one address the first is kept
load_priority_map_KeepFirst(file) ==
    IF ~file.exists THEN EmptyMap
    ELSE load_rows([k \in 1..Len(file.rows) |-> file.rows[Len(file.rows) + 1 - k]],
                   EmptyMap)

\* filter.py:9-30; file is [exists, rows], rows the records of the CSV
load_priority_map(file) ==
    IF ~file.exists THEN EmptyMap ELSE load_rows(file.rows, EmptyMap)

\* email.utils.parseaddr(from_header)[1] for the header forms of the model:
\* "", a comment such as "(no from)", a bare address, "Name <address>"
ParseAddr(h) ==
    LET lt == Find(h, <<"<">>, 1)
        gt == IF lt = 0 THEN 0 ELSE Find(h, <<">">>, lt + 1)
        s == Strip(h)
    IN  IF lt # 0 /\ gt # 0 THEN SubSeq(h, lt + 1, gt - 1)
        ELSE IF s # <<>> /\ s[1] = "(" THEN <<>>
        ELSE s

\* a plausible slip: the address is looked up as written, not lower-cased
_extract_email_NoLower(from_header) == ParseAddr(from_header)

\* filter.py:32-37
_extract_email(from_header) == Lower(ParseAddr(from_header))

\* a plausible slip: a sender whose address is not listed gets the priority
\* listed for the domain of the address
get_priority_for_sender_DomainFallback(from_header, pmap) ==
    LET email == _extract_email(from_header)
        at == Find(email, <<"@">>, 1)
        domain == SubSeq(email, at + 1, Len(email))
    IN  IF email = <<>> THEN NoneInt
        ELSE IF email \in DOMAIN pmap THEN Some(pmap[email])
        ELSE IF at # 0 /\ domain \in DOMAIN pmap THEN Some(pmap[domain])
        ELSE NoneInt

\* filter.py:39-46; NoneInt when unresolved, Some(p) otherwise
get_priority_for_sender(from_header, pmap) ==
    LET email == _extract_email(from_header)
    IN  IF email = <<>> THEN NoneInt
        ELSE IF email \in DOMAIN pmap THEN Some(pmap[email])
        ELSE NoneInt

-----------------------------------------------------------------------------
(* src/src/fetch.py                                                        *)

\* the four spellings of r"view (this )?in (your )?browser[:]"
ViewInBrowserLits ==
    { <<"v","i","e","w"," ","t","h","i","s"," ","i","n"," ","y","o","u","r",
            " ","b","r","o","w","s","e","r",":">>, <<"v","i","e","w"," ",
            "i","n"," ","y","o","u","r"," ","b","r","o","w","s","e","r",
            ":">>,
      <<"v","i","e","w"," ","t","h","i","s"," ","i","n"," ","b","r","o","w",
              "s","e","r",":">>, <<"v","i","e","w"," ","i","n"," ","b","r",
              "o","w","s","e","r",":">> }

\* fetch.py:33-49
_clean_boilerplate_text(text) ==
    IF text = <<>> THEN <<>>
    ELSE LET s1 == RemoveToEol(text, ViewInBrowserLits)
             s2 == RemoveToEol(s1, {<<"u","n","s","u","b","s","c","r","i",
                     "b","e",":">>})
             s3 == RemoveToEol(s2, {<<"t","o"," ","u","n","s","u","b","s",
                     "c","r","i","b","e">>})
             s4 == RemoveToEol(s3, {<<"i","f"," ","y","o","u"," ","n","o",
                     " ","l","o","n","g","e","r"," ","w","i","s","h"," ",
                     "t","o"," ","r","e","c","e","i","v","e">>})
             s5 == RemoveToEol(s4, {<<"c","l","i","c","k"," ","h","e","r",
                     "e"," ","t","o"," ","v","i","e","w">>})
             s6 == RemoveToEnd(s5, {<<"p","r","e","f","e","r","e","n","c",
                     "e","s",":">>})
             s7 == RemoveToEol(s6, {<<"m","a","n","a","g","e"," ","y","o",
                     "u","r"," ","s","u","b","s","c","r","i","p","t","i",
                     "o","n">>})
         IN  Strip(CollapseNewlines(s7))

\* html.escape of one character
EscapeChar(c) ==
    CASE c = "&" -> <<"&","a","m","p",";">>
      [] c = "<" -> <<"&","l","t",";">>
      [] c = ">" -> <<"&","g","t",";">>
      [] c = "\"" -> <<"&","q","u","o","t",";">>
      [] c = "'" -> <<"&","#","x","2","7",";">>
      [] OTHER -> <<c>>

\* html.escape(s)
HtmlEscape(s) == Join([k \in 1..Len(s) |-> EscapeChar(s[k])], <<>>)

AnchorLits ==
    { <<"v","i","e","w"," ","i","n"," ","b","r","o","w","s","e",
            "r">>, <<"u","n","s","u","b","s","c","r","i","b","e">>, <<"m",
            "a","n","a","g","e"," ","y","o","u","r"," ","s","u","b","s","c",
            "r","i","p","t","i","o","n">> }

\* end of the match of
\* r'(?is)<a[^>]*>(view in browser|unsubscribe|manage your subscription)[^<]*</a>'
\* that starts at k, 0 if there is none; low is Lower(s)
AnchorEnd(low, k) ==
    IF ~MatchAt(low, k, <<"<","a">>) THEN 0
    ELSE LET gt == Find(low, <<">">>, k + 2)
         IN  IF gt = 0 THEN 0
             ELSE LET lits == {lit \in AnchorLits : MatchAt(low, gt + 1, lit)}
                  IN  IF lits = {} THEN 0
                      ELSE LET lit == CHOOSE l \in lits : TRUE
                               lt == Find(low, <<"<">>, gt + 1 + Len(lit))
                           IN  IF lt # 0 /\ MatchAt(low, lt, <<"<","/","a",
                                   ">">>)
                               THEN lt + 3 ELSE 0

\* re.sub of the anchor pattern by '', from position from on
RECURSIVE RemoveAnchorsFrom(_, _, _)
RemoveAnchorsFrom(s, low, from) ==
    LET starts == {k \in from..Len(s) : AnchorEnd(low, k) # 0}
    IN  IF starts = {} THEN SubSeq(s, from, Len(s))
        ELSE LET k == CHOOSE j \in starts : \A i \in starts : j <= i
             IN  SubSeq(s, from, k - 1)
                     \o RemoveAnchorsFrom(s, low, AnchorEnd(low, k) + 1)

\* re.sub(r'(?is)<!--.*?-->', '', s), from position from on
RECURSIVE RemoveCommentsFrom(_, _)
RemoveCommentsFrom(s, from) ==
    LET open == Find(s, <<"<","!","-","-">>, from)
        close == IF open = 0 THEN 0 ELSE Find(s, <<"-","-",">">>, open + 4)
    IN  IF close = 0 THEN SubSeq(s, from, Len(s))
        ELSE SubSeq(s, from, open - 1) \o RemoveCommentsFrom(s, close + 3)

PreOpen == <<"<","p","r","e"," ","s","t","y","l","e","=","'","w","h","i",
        "t","e","-","s","p","a","c","e",":","p","r","e","-","w","r","a","p",
        ";","f","o","n","t","-","f","a","m","i","l","y",":","i","n","h","e",
        "r","i","t",";","'",">">>
PreClose == <<"<","/","p","r","e",">">>

\* fetch.py:51-87 for a message whose first text/plain part is text_part and
\* whose first text/html part is html_part ("" when it has none)
_extract_text_html(text_part, html_part) ==
    LET text == _clean_boilerplate_text(text_part)
        html_content ==
            IF html_part # <<>>
            THEN RemoveCommentsFrom(
                     RemoveAnchorsFrom(html_part, Lower(html_part), 1), 1)
            ELSE PreOpen \o HtmlEscape(text) \o PreClose
    IN  [text |-> text, html |-> html_content]

\* fetch.py:89-95
_is_newsletter(list_unsubscribe, subject_hdr, from_hdr, text) ==
    \/ list_unsubscribe
    \/ ContainsWord(OrEmpty(subject_hdr) \o <<"\n">> \o OrEmpty(from_hdr)
                        \o <<"\n">> \o text,
                    <<"u","n","s","u","b","s","c","r","i","b","e">>)

\* datetime.isoformat() of a timestamp of the model
IsoFormat(date) == <<ToString(date)>>

\* hashlib.sha256(payload).hexdigest(), taken as injective
Sha256(payload) == <<"sha256">> \o payload

\* fetch.py:97-101
_compute_fallback_hash(subject, date, text) ==
    Sha256(subject \o <<"|">> \o IsoFormat(date) \o <<"|">> \o text)

-----------------------------------------------------------------------------
(* Python values of dynamic type (what json.loads returns, what            *)
(* extract_items_from_message returns): tagged, so that a dict, a list, a  *)
(* str and None can stand in the same place.  JNull is Python's None.      *)

JStr(s) == [t |-> "str", v |-> s]
JNull == [t |-> "null", v |-> <<>>]
JInt(n) == [t |-> "int", v |-> n]
JBool(b) == [t |-> "bool", v |-> b]
JList(xs) == [t |-> "list", v |-> xs]
\* members: the sequence of <<key, value>> pairs, in insertion order
JDict(members) == [t |-> "dict", v |-> members]

\* key in d
DictHas(d, key) == \E k \in 1..Len(d.v) : d.v[k][1] = key

\* d.get(key): the value of the last member named key, None if there is none
DictGet(d, key) ==
    LET at == {k \in 1..Len(d.v) : d.v[k][1] = key}
    IN  IF at = {} THEN JNull
        ELSE d.v[CHOOSE k \in at : \A j \in at : j <= k][2]

\* d[key] = value
DictSet(d, key, value) ==
    IF DictHas(d, key)
    THEN JDict([k \in 1..Len(d.v) |->
                    IF d.v[k][1] = key THEN <<key, value>> ELSE d.v[k]])
    ELSE JDict(Append(d.v, <<key, value>>))

\* Python truthiness of a tagged value
Truthy(x) ==
    CASE x.t = "null" -> FALSE
      [] x.t = "bool" -> x.v
      [] x.t = "int" -> x.v # 0
      [] OTHER -> x.v # <<>>

-----------------------------------------------------------------------------
(* json.dumps(data, ensure_ascii=False) and json.loads(text), main.py:415   *)
(* and 423, on the characters of the file                                  *)

JsonEscapeChar(c) ==
    CASE c = "\"" -> <<"\\", "\"">>
      [] c = "\\" -> <<"\\", "\\">>
      [] c = "\n" -> <<"\\", "n">>
      [] c = "\t" -> <<"\\", "t">>
      [] c = "\r" -> <<"\\", "r">>
      [] OTHER -> <<c>>

JsonQuote(s) ==
    <<"\"">> \o Join([k \in 1..Len(s) |-> JsonEscapeChar(s[k])],
            <<>>) \o <<"\"">>

RECURSIVE JsonDumps(_)
JsonDumps(x) ==
    CASE x.t = "str" -> JsonQuote(x.v)
      [] x.t = "null" -> <<"n","u","l","l">>
      [] x.t = "bool" -> IF x.v THEN <<"t","r","u","e">> ELSE <<"f","a","l",
              "s","e">>
      [] x.t = "int" -> <<ToString(x.v)>>
      [] x.t = "list" ->
            <<"[">> \o Join([k \in 1..Len(x.v) |-> JsonDumps(x.v[k])],
                    <<","," ">>)
                \o <<"]">>
      [] x.t = "dict" ->
            <<"{">> \o Join([k \in 1..Len(x.v) |->
                              JsonQuote(x.v[k][1]) \o <<":"," ">>
                                  \o JsonDumps(x.v[k][2])], <<","," ">>)
                \o <<"}">>

\* first position >= k of s that holds no JSON whitespace
RECURSIVE SkipWs(_, _)
SkipWs(s, k) ==
    IF k > Len(s) THEN Len(s) + 1
    ELSE IF IsSpace(s[k]) THEN SkipWs(s, k + 1)
    ELSE k

\* number of backslashes that end right before position j
RECURSIVE BackslashRun(_, _)
BackslashRun(s, j) ==
    IF j > 1 /\ s[j - 1] = "\\" THEN 1 + BackslashRun(s, j - 1) ELSE 0

\* position of the first quote at or after from that no backslash escapes,
\* 0 if none; s is searched sixteen characters at a time
RECURSIVE StringEndFrom(_, _)
StringEndFrom(s, from) ==
    IF from > Len(s) THEN 0
    ELSE LET last == IF from + 15 < Len(s) THEN from + 15 ELSE Len(s)
             ends == {j \in from..last :
                         s[j] = "\"" /\ BackslashRun(s, j) % 2 = 0}
         IN  IF ends # {} THEN CHOOSE j \in ends : \A i \in ends : j <= i
             ELSE StringEndFrom(s, last + 1)

\* position of the quote that closes the string opened at k, 0 if none
StringEnd(s, k) == StringEndFrom(s, k + 1)

\* the characters a JSON string body stands for, from position from on
RECURSIVE JsonUnescapeFrom(_, _)
JsonUnescapeFrom(b, from) ==
    LET bs == Find(b, <<"\\">>, from)
    IN  IF bs = 0 \/ bs = Len(b) THEN SubSeq(b, from, Len(b))
        ELSE LET e == b[bs + 1]
                 c == CASE e = "n" -> "\n"
                        [] e = "t" -> "\t"
                        [] e = "r" -> "\r"
                        [] OTHER -> e
             IN  SubSeq(b, from, bs - 1) \o <<c>> \o JsonUnescapeFrom(b, bs + 2)

ParseFail == [ok |-> FALSE, v |-> JNull, next |-> 0]

\* the value that starts at position k of s, and the position after it
RECURSIVE ParseValue(_, _)
RECURSIVE ParseElements(_, _, _)
RECURSIVE ParseMembers(_, _, _)
RECURSIVE ElementsAfter(_, _, _)
RECURSIVE MembersAfter(_, _, _, _)
RECURSIVE MemberValue(_, _)
ParseValue(s, k) ==
    IF k > Len(s) THEN ParseFail
    ELSE IF s[k] = "\"" THEN
        LET e == StringEnd(s, k)
        IN  IF e = 0 THEN ParseFail
            ELSE [ok |-> TRUE, next |-> e + 1,
                  v |-> JStr(JsonUnescapeFrom(SubSeq(s, k + 1, e - 1), 1))]
    ELSE IF MatchAt(s, k, <<"n","u","l","l">>) THEN [ok |-> TRUE,
            v |-> JNull, next |-> k + 4]
    ELSE IF MatchAt(s, k, <<"t","r","u","e">>) THEN [ok |-> TRUE,
            v |-> JBool(TRUE), next |-> k + 4]
    ELSE IF MatchAt(s, k, <<"f","a","l","s","e">>) THEN [ok |-> TRUE,
            v |-> JBool(FALSE), next |-> k + 5]
    ELSE IF IsDigit(s[k]) THEN
        LET rest == {j \in k..Len(s) : ~IsDigit(s[j])}
            e == IF rest = {} THEN Len(s) + 1
                 ELSE CHOOSE j \in rest : \A i \in rest : j <= i
        IN  [ok |-> TRUE, v |-> JInt(DigitsValue(SubSeq(s, k, e - 1))), next |-> e]
    ELSE IF s[k] = "[" THEN
        LET j == SkipWs(s, k + 1)
        IN  IF j <= Len(s) /\ s[j] = "]"
            THEN [ok |-> TRUE, v |-> JList(<<>>), next |-> j + 1]
            ELSE ParseElements(s, j, <<>>)
    ELSE IF s[k] = "{" THEN
        LET j == SkipWs(s, k + 1)
        IN  IF j <= Len(s) /\ s[j] = "}"
            THEN [ok |-> TRUE, v |-> JDict(<<>>), next |-> j + 1]
            ELSE ParseMembers(s, j, <<>>)
    ELSE ParseFail

\* the list whose elements so far are acc, r the element just read
ElementsAfter(s, acc, r) ==
    IF ~r.ok THEN ParseFail
    ELSE Strict(LAMBDA j :
                    IF j > Len(s) THEN ParseFail
                    ELSE IF s[j] = "]"
                    THEN [ok |-> TRUE, v |-> JList(Append(acc, r.v)),
                          next |-> j + 1]
                    ELSE IF s[j] = ","
                    THEN ParseElements(s, SkipWs(s, j + 1), Append(acc, r.v))
                    ELSE ParseFail,
                SkipWs(s, r.next))

\* the elements of a list from position k on, acc those read so far
ParseElements(s, k, acc) ==
    Strict(LAMBDA r : ElementsAfter(s, acc, r), ParseValue(s, k))

\* the object whose members so far are acc, key and val the member just read
MembersAfter(s, acc, key, val) ==
    IF ~val.ok THEN ParseFail
    ELSE Strict(LAMBDA j :
                    IF j > Len(s) THEN ParseFail
                    ELSE IF s[j] = "}"
                    THEN [ok |-> TRUE,
                          v |-> JDict(Append(acc, <<key.v.v, val.v>>)),
                          next |-> j + 1]
                    ELSE IF s[j] = ","
                    THEN ParseMembers(s, SkipWs(s, j + 1),
                                      Append(acc, <<key.v.v, val.v>>))
                    ELSE ParseFail,
                SkipWs(s, val.next))

\* the value of the member whose key was just read
MemberValue(s, key) ==
    IF ~key.ok THEN ParseFail
    ELSE Strict(LAMBDA colon :
                    IF colon <= Len(s) /\ s[colon] = ":"
                    THEN ParseValue(s, SkipWs(s, colon + 1)) ELSE ParseFail,
                SkipWs(s, key.next))

\* the members of an object from position k on, acc those read so far
ParseMembers(s, k, acc) ==
    Strict(LAMBDA key :
               Strict(LAMBDA val : MembersAfter(s, acc, key, val),
                      MemberValue(s, key)),
           IF k <= Len(s) /\ s[k] = "\"" THEN ParseValue(s, k) ELSE ParseFail)

\* json.loads(s): [ok |-> FALSE] when it raises
JsonLoads(s) ==
    LET r == ParseValue(s, SkipWs(s, 1))
    IN  IF r.ok /\ SkipWs(s, r.next) = Len(s) + 1
        THEN [ok |-> TRUE, v |-> r.v] ELSE [ok |-> FALSE, v |-> JNull]

-----------------------------------------------------------------------------
(* Markup, as bleach and BeautifulSoup read it: a tag runs from a "<" that  *)
(* is followed by a letter, "/" or "!" to the next ">" (a comment to its    *)
(* "-->"), everything else is text.  Attributes are not modelled: a tag     *)
(* that is kept is written without them.                                   *)

IsTagOpen(s, k) ==
    /\ s[k] = "<"
    /\ k < Len(s)
    /\ s[k + 1] \in Letters \cup {"/", "!"}

\* last position of the tag that opens at k (the end of s if it never closes)
TagEnd(s, k) ==
    LET close == IF MatchAt(s, k, <<"<","!","-","-">>)
                 THEN Find(s, <<"-","-",">">>, k + 4) ELSE Find(s, <<">">>,
                         k + 1)
    IN  IF close = 0 THEN Len(s)
        ELSE IF MatchAt(s, k, <<"<","!","-","-">>) THEN close + 2 ELSE close

\* the pieces of s from position from on: [tag |-> BOOLEAN, v |-> characters]
RECURSIVE MarkupPiecesFrom(_, _)
MarkupPiecesFrom(s, from) ==
    IF from > Len(s) THEN <<>>
    ELSE LET rest == from..Len(s)
         IN  IF \A k \in rest : ~IsTagOpen(s, k)
             THEN <<[tag |-> FALSE, v |-> SubSeq(s, from, Len(s))]>>
             ELSE LET k == CHOOSE j \in rest :
                               /\ IsTagOpen(s, j)
                               /\ \A i \in from..(j - 1) : ~IsTagOpen(s, i)
                      e == TagEnd(s, k)
                  IN  (IF k > from
                       THEN <<[tag |-> FALSE, v |-> SubSeq(s, from, k - 1)]>>
                       ELSE <<>>)
                          \o <<[tag |-> TRUE, v |-> SubSeq(s, k, e)]>>
                          \o MarkupPiecesFrom(s, e + 1)

MarkupPieces(s) == MarkupPiecesFrom(s, 1)

\* the lower-cased name of a tag, "" for a comment or declaration
TagName(tag) ==
    LET from == IF MatchAt(tag, 1, <<"<","/">>) THEN 3 ELSE 2
        stops == {k \in from..(Len(tag) + 1) : k > Len(tag) \/ ~IsWordChar(tag[k])}
        e == CHOOSE k \in stops : \A j \in stops : k <= j
    IN  Lower(SubSeq(tag, from, e - 1))

Entities ==
    << <<<<"&","a","m","p",";">>, "&">>, <<<<"&","l","t",";">>, "<">>,
            <<<<"&","g","t",";">>, ">">>,
       <<<<"&","q","u","o","t",";">>, "\"">>, <<<<"&","#","x","2","7",";">>,
               "'">> >>

\* the character references of s replaced by their characters
RECURSIVE HtmlUnescapeFrom(_, _)
HtmlUnescapeFrom(s, from) ==
    LET hits == {k \in from..Len(s) :
                    \E n \in 1..Len(Entities) : MatchAt(s, k, Entities[n][1])}
    IN  IF hits = {} THEN SubSeq(s, from, Len(s))
        ELSE LET k == CHOOSE j \in hits : \A i \in hits : j <= i
                 n == CHOOSE i \in 1..Len(Entities) : MatchAt(s, k, Entities[i][1])
             IN  SubSeq(s, from, k - 1) \o <<Entities[n][2]>>
                     \o HtmlUnescapeFrom(s, k + Len(Entities[n][1]))

HtmlUnescape(s) ==
    IF \A k \in 1..Len(s) : s[k] # "&" THEN s ELSE HtmlUnescapeFrom(s, 1)

\* text as the serializer of bleach writes it
EscapeTextChar(c) ==
    CASE c = "&" -> <<"&","a","m","p",";">>
      [] c = "<" -> <<"&","l","t",";">>
      [] c = ">" -> <<"&","g","t",";">>
      [] OTHER -> <<c>>

EscapeText(s) ==
    IF \A k \in 1..Len(s) : s[k] \notin {"&", "<", ">"} THEN s
    ELSE Join([k \in 1..Len(s) |-> EscapeTextChar(s[k])], <<>>)

\* BeautifulSoup(html, "html.parser").get_text(separator="\n"):
\* the text nodes, character references resolved, joined by line breaks
HtmlGetText(html) ==
    LET texts == SelectSeq(MarkupPieces(html), LAMBDA p : ~p.tag)
    IN  Join([k \in 1..Len(texts) |-> HtmlUnescape(texts[k].v)], <<"\n">>)

\* the literal lit removed wherever it occurs in s, from position from on:
\* re.sub(lit, '', s, flags=re.IGNORECASE) for a lower-case lit; low is Lower(s)
RECURSIVE RemoveLiteralFrom(_, _, _, _)
RemoveLiteralFrom(s, low, lit, from) ==
    LET k == Find(low, lit, from)
    IN  IF k = 0 THEN SubSeq(s, from, Len(s))
        ELSE SubSeq(s, from, k - 1) \o RemoveLiteralFrom(s, low, lit, k + Len(lit))

RemoveLiteral(s, lit) == RemoveLiteralFrom(s, Lower(s), lit, 1)

\* s.split("\n") from position from on
RECURSIVE SplitFrom(_, _)
SplitFrom(s, from) ==
    LET e == FirstEol(s, from)
    IN  IF e > Len(s) THEN <<SubSeq(s, from, Len(s))>>
        ELSE <<SubSeq(s, from, e - 1)>> \o SplitFrom(s, e + 1)

\* s.splitlines()
SplitLines(s) ==
    IF s = <<>> THEN <<>>
    ELSE IF s[Len(s)] = "\n" THEN SplitFrom(SubSeq(s, 1, Len(s) - 1), 1)
    ELSE SplitFrom(s, 1)

\* s[:n]
Take(s, n) == SubSeq(s, 1, IF Len(s) < n THEN Len(s) ELSE n)

-----------------------------------------------------------------------------
(* src/src/summarize.py                                                    *)

\* summarize.py:22-29
TECHNICAL_PATTERNS_SUMMARIZE ==
    << <<"n","e","z","o","b","r","a","z","u","j","e"," ","s","e"," ","v",
            "U00E1","m"," ","n","e","w","s","l","e","t","t","e","r"," ","s",
            "p","r","U00E1","v","n","U011B">>,
       <<"i","f"," ","y","o","u"," ","a","r","e"," ","h","a","v","i","n",
               "g"," ","t","r","o","u","b","l","e"," ","v","i","e","w","i",
               "n","g"," ","t","h","i","s"," ","e","m","a","i","l">>,
       <<"c","l","i","c","k"," ","h","e","r","e"," ","t","o"," ","v","i",
               "e","w"," ","i","n"," ","y","o","u","r"," ","b","r","o","w",
               "s","e","r">>,
       <<"z","o","b","r","a","z","i","t"," ","v"," ","p","r","o","h","l",
               "U00ED","U017E","e","U010D","i">>,
       <<"i","f"," ","y","o","u"," ","c","a","n","'","t"," ","s","e","e",
               " ","i","m","a","g","e","s">>,
       <<"v","i","e","w"," ","i","n"," ","b","r","o","w","s","e","r">> >>

RECURSIVE RemoveLiterals(_, _, _)
RemoveLiterals(s, pats, n) ==
    IF n > Len(pats) THEN s
    ELSE Strict(LAMBDA r : RemoveLiterals(r, pats, n + 1), RemoveLiteral(s, pats[n]))

\* summarize.py:33-38
_strip_technical_summarize(text) ==
    Strip(CollapseNewlines(RemoveLiterals(text, TECHNICAL_PATTERNS_SUMMARIZE, 1)))

\* summarize.py:40-46
_to_plain_text(html, fallback) ==
    IF html = <<>> /\ fallback # <<>> THEN fallback ELSE HtmlGetText(html)

\* characters that end a match of URL_RE, summarize.py:31
UrlStop(c) == IsSpace(c) \/ c \in {"'", "\"", "<", ">", ")", "+"}

\* URL_RE.search(p): the first link of p, None if it has none
FirstUrl(p) ==
    LET low == Lower(p)
        starts == {k \in 1..Len(p) :
                      \E scheme \in {<<"h","t","t","p",":","/","/">>, <<"h",
                              "t","t","p","s",":","/","/">>} :
                          /\ MatchAt(low, k, scheme)
                          /\ k + Len(scheme) <= Len(p)
                          /\ ~UrlStop(p[k + Len(scheme)])}
    IN  IF starts = {} THEN None
        ELSE LET k == CHOOSE j \in starts : \A i \in starts : j <= i
                 body == IF MatchAt(low, k, <<"h","t","t","p","s",":","/",
                         "/">>) THEN k + 8 ELSE k + 7
                 stops == {j \in body..(Len(p) + 1) : j > Len(p) \/ UrlStop(p[j])}
                 e == CHOOSE j \in stops : \A i \in stops : j <= i
             IN  SubSeq(p, k, e - 1)

\* re.split(r'(?<=[.!?])\s+', s)[0]
FirstSentence(s) ==
    LET cuts == {k \in 2..Len(s) : IsSpace(s[k]) /\ s[k - 1] \in {".", "!", "?"}}
    IN  IF cuts = {} THEN s
        ELSE SubSeq(s, 1, (CHOOSE k \in cuts : \A j \in cuts : k <= j) - 1)

\* summarize.py:71
BoilerplateLits ==
    { <<"u","n","s","u","b","s","c","r","i","b","e">>, <<"o","d","h","l",
            "U00E1","s","i","t">>, <<"m","a","n","a","g","e"," ","y","o",
            "u","r"," ","s","u","b","s","c","r","i","p","t","i","o","n">>,
      <<"p","r","e","f","e","r","e","n","c","e","s">>, <<"p","r","i","v",
              "a","c","y"," ","p","o","l","i","c","y">> }

OptStr(v) == IF v = None THEN JNull ELSE JStr(v)

Item(title, summary, full_text, link) ==
    JDict(<< <<<<"t","i","t","l","e">>, JStr(title)>>, <<<<"s","u","m","m",
            "a","r","y">>, JStr(summary)>>,
             <<<<"f","u","l","l","_","t","e","x","t">>, JStr(full_text)>>,
                     <<<<"l","i","n","k">>, OptStr(link)>> >>)

\* summarize.py:64
MAX_ITEMS == 8
\* summarize.py:61
MIN_PARAGRAPH == 60
\* summarize.py:66
KEY_LEN == 80
\* summarize.py:89
FALLBACK_LINES == 4

\* the loop of summarize.py:63-85 over the candidate paragraphs ps[n..]
RECURSIVE CandidateItems(_, _, _, _)
CandidateItems(ps, n, seen, items) ==
    IF n > Len(ps) \/ Len(items) >= MAX_ITEMS THEN items
    ELSE LET p == ps[n]
             key == Take(p, KEY_LEN)
             sent == FirstSentence(Strip(p))
         IN  IF key \in seen THEN CandidateItems(ps, n + 1, seen, items)
             ELSE IF FindAny(Lower(p), BoilerplateLits, 1) # 0
             THEN CandidateItems(ps, n + 1, seen \cup {key}, items)
             ELSE CandidateItems(ps, n + 1, seen \cup {key},
                      Append(items, Item(Take(sent, 80), Take(sent, 300),
                                         Strip(p), FirstUrl(p))))

\* summarize.py:101-103
NormalizeItem(it) ==
    DictSet(DictSet(it, <<"s","u","m","m","a","r","y">>,
                    JStr(_strip_technical_summarize(DictGet(it, <<"s","u",
                            "m","m","a","r","y">>).v))),
            <<"f","u","l","l","_","t","e","x","t">>,
            JStr(_strip_technical_summarize(DictGet(it, <<"f","u","l","l",
                    "_","t","e","x","t">>).v)))

\* summarize.py:56: the stripped lines of plain that are not empty
NonEmptyLines(plain) ==
    LET ls == SplitLines(plain)
    IN  SelectSeq([k \in 1..Len(ls) |-> Strip(ls[k])], LAMBDA l : l # <<>>)

\* summarize.py:57
NaiveOverview(lines) ==
    IF lines # <<>> THEN Take(Join(Take(lines, 3), <<" ">>), 400) ELSE <<>>

\* summarize.py:61
CandidateParagraphs(plain) ==
    SelectSeq(SplitFrom(plain, 1), LAMBDA p : Len(Strip(p)) > MIN_PARAGRAPH)

\* summarize.py:88-97: the first lines as items
FallbackItems(firstLines) ==
    [k \in 1..Len(firstLines) |->
        Item(Take(firstLines[k], 80), Take(firstLines[k], 200), firstLines[k],
             FirstUrl(firstLines[k]))]

\* summarize.py:88: the items found, else the fallback
ItemsOrFallback(found, lines) ==
    IF found = <<>> /\ lines # <<>> THEN FallbackItems(Take(lines, FALLBACK_LINES))
    ELSE found

\* summarize.py:100-105
NaiveResult(overview, items) ==
    JDict(<< <<<<"o","v","e","r","v","i","e","w">>,
            JStr(_strip_technical_summarize(overview))>>,
             <<<<"i","t","e","m","s">>,
               JList([k \in 1..Len(items) |-> NormalizeItem(items[k])])>> >>)

\* summarize.py:56-105 on the plain text of line 55 and its lines
NaiveFromLines(plain, lines) ==
    NaiveResult(NaiveOverview(lines),
                ItemsOrFallback(CandidateItems(CandidateParagraphs(plain), 1, {},
                                               <<>>),
                                lines))

\* summarize.py:48-105
_naive_sections(text, html) ==
    Strict(LAMBDA plain : NaiveFromLines(plain, NonEmptyLines(plain)),
           _strip_technical_summarize(_to_plain_text(html, text)))

\* summarize.py:19
USE_API == FALSE

\* summarize.py:107-109: what the call of the generative service does;
\* the stub of this deployment returns None
StubResponse == [raises |-> FALSE, resp |-> None]

\* summarize.py:138-140
LastResort(text) ==
    LET overview == Take(Join(Take(SplitLines(text), 3), <<" ">>), 400)
    IN  JDict(<< <<<<"o","v","e","r","v","i","e","w">>, JStr(overview)>>,
                 <<<<"i","t","e","m","s">>,
                   JList(<<Item(Take(overview, 80), overview, overview, None)>>)>> >>)

\* summarize.py:111-140; use_api is USE_API, gen what _call_openai_chat does
\* when it is called: [raises |-> BOOLEAN, resp |-> characters or None]
extract_items_from_message(subject, frm, text, html, uid, use_api, gen) ==
    IF use_api /\ gen.raises THEN LastResort(text)
    ELSE IF use_api /\ gen.resp # None /\ gen.resp # <<>>
    THEN LET data == JsonLoads(gen.resp)
         IN  IF data.ok /\ data.v.t = "dict" /\ DictHas(data.v, <<"i","t",
                 "e","m","s">>)
             THEN data.v
             ELSE _naive_sections(text, html)
    ELSE _naive_sections(text, html)

-----------------------------------------------------------------------------
(* src/src/main.py: helpers                                                *)

\* bleach.sanitizer.ALLOWED_TAGS and main.py:39-41
ALLOWED_TAGS ==
    { <<"a">>, <<"a","b","b","r">>, <<"a","c","r","o","n","y","m">>,
            <<"b">>, <<"b","l","o","c","k","q","u","o","t","e">>, <<"c","o",
            "d","e">>,
      <<"e","m">>, <<"i">>, <<"l","i">>, <<"o","l">>, <<"s","t","r","o","n",
              "g">>, <<"u","l">>,
      <<"i","m","g">>, <<"t","a","b","l","e">>, <<"t","r">>, <<"t","d">>,
              <<"t","h">>, <<"t","h","e","a","d">>,
      <<"t","b","o","d","y">>, <<"t","f","o","o","t">>, <<"s","t","y","l",
              "e">> }

\* one piece of markup as bleach.clean(..., strip=True) writes it
CleanPiece(p) ==
    IF ~p.tag THEN EscapeText(HtmlUnescape(p.v))
    ELSE LET name == TagName(p.v)
         IN  IF name \in ALLOWED_TAGS
             THEN (IF MatchAt(p.v, 1, <<"<","/">>) THEN <<"<",
                     "/">> ELSE <<"<">>)
                      \o name \o <<">">>
             ELSE <<>>

\* bleach.clean(html, tags=ALLOWED_TAGS, ..., strip=True), main.py:428
BleachClean(html) ==
    LET ps == MarkupPieces(html)
    IN  Join([k \in 1..Len(ps) |-> CleanPiece(ps[k])], <<>>)

\* re.sub(r'(?is)<script.*?>.*?</script>', '', s), from position from on
RECURSIVE RemoveScriptsFrom(_, _, _)
RemoveScriptsFrom(s, low, from) ==
    LET open == Find(low, <<"<","s","c","r","i","p","t">>, from)
        gt == IF open = 0 THEN 0 ELSE Find(low, <<">">>, open + 7)
        close == IF gt = 0 THEN 0 ELSE Find(low, <<"<","/","s","c","r","i",
                "p","t",">">>, gt + 1)
    IN  IF close = 0 THEN SubSeq(s, from, Len(s))
        ELSE SubSeq(s, from, open - 1) \o RemoveScriptsFrom(s, low, close + 9)

\* main.py:427-431
sanitize_html(html_content) ==
    LET cleaned == BleachClean(html_content)
        noscript == RemoveScriptsFrom(cleaned, Lower(cleaned), 1)
    IN  RemoveLiteral(noscript, <<"j","a","v","a","s","c","r","i","p","t",
            ":">>)

\* main.py:408-409
safe_id_for(value) == Sha256(value)

\* main.py:433-452 for the datetime the fetch stores (a timestamp of the
\* model) and for None
parse_date_to_ts(val) == IF val = NoneInt THEN 0 ELSE val[1]

\* main.py:454-457
EXCLUDE_SUBJECT_PATTERNS ==
    << <<"c","o","n","f","i","r","m"," ","y","o","u","r"," ","s","u","b",
            "s","c","r","i","p","t","i","o","n">>, <<"c","o","n","f","i",
            "r","m"," ","s","u","b","s","c","r","i","p","t","i","o","n">>,
       <<"c","o","n","f","i","r","m"," ","e","m","a","i","l">>, <<"v","e",
               "r","i","f","y"," ","y","o","u","r"," ","e","m","a","i",
               "l">>, <<"v","e","r","i","f","i","c","a","t","i","o","n">>,
       <<"p","o","t","v","r","U010F">>, <<"o","v","U011B","U0159">>, <<"o",
               "v","U011B","U0159","t","e">>, <<"c","o","n","f","i","r",
               "m">>, <<"v","e","r","i","f","y">>,
       <<"a","c","t","i","o","n"," ","r","e","q","u","i","r","e","d">>,
               <<"p","l","e","a","s","e"," ","c","o","n","f","i","r",
               "m">> >>

\* a plausible slip: the subject is searched as written, not lower-cased
subject_is_excluded_CaseSensitive(subject) ==
    \E n \in 1..Len(EXCLUDE_SUBJECT_PATTERNS) :
        Contains(subject, EXCLUDE_SUBJECT_PATTERNS[n])

\* main.py:459-464
subject_is_excluded(subject) ==
    LET s == Lower(subject)
    IN  \E n \in 1..Len(EXCLUDE_SUBJECT_PATTERNS) :
            Contains(s, EXCLUDE_SUBJECT_PATTERNS[n])

\* a plausible slip: the record is looked for under another name
load_cache_OtherName(files, uid, readable) == JNull

\* main.py:411-418; files is CACHE_DIR, readable whether read_text succeeds
load_cache(files, uid, readable) ==
    IF uid \in DOMAIN files /\ readable
    THEN Strict(LAMBDA loaded : IF loaded.ok THEN loaded.v ELSE JNull,
                JsonLoads(files[uid]))
    ELSE JNull

\* a plausible slip: the record is written without the items' links
save_cache_DropLinks(files, uid, data, written, torn) ==
    LET slim == [k \in 1..Len(DictGet(data, <<"i","t","e","m","s">>).v) |->
                    DictSet(DictGet(data, <<"i","t","e","m","s">>).v[k],
                            <<"l","i","n","k">>, JNull)]
    IN  MapPut(files, uid, JsonDumps(DictSet(data, <<"i","t","e","m","s">>,
            JList(slim))))

\* a plausible slip: a record that is there is not written again
save_cache_KeepExisting(files, uid, data, written, torn) ==
    IF uid \in DOMAIN files THEN files
    ELSE IF written THEN MapPut(files, uid, JsonDumps(data))
    ELSE files

\* main.py:420-425; written whether write_text succeeds: CACHE_DIR afterwards.
\* write_text opens the file for writing, which empties it, and then writes:
\* a write that fails leaves the file as it was when the open failed (torn
\* false) and cut short when the failure came later (torn true); the text of
\* a record cut short is no JSON text, the empty text stands for it
save_cache(files, uid, data, written, torn) ==
    IF written THEN MapPut(files, uid, JsonDumps(data))
    ELSE IF torn THEN MapPut(files, uid, <<>>)
    ELSE files

\* sorted(seq, key=...): stable, Less the strict order of the keys
StableSort(seq, Less(_, _)) ==
    LET n == Len(seq)
        rank(i) == Cardinality({j \in 1..n : Less(seq[j], seq[i])})
                   + Cardinality({j \in 1..(i - 1) :
                                     ~Less(seq[j], seq[i]) /\ ~Less(seq[i], seq[j])})
                   + 1
    IN  [p \in 1..n |-> seq[CHOOSE i \in 1..n : rank(i) = p]]

\* main.py:367-375
TECHNICAL_PATTERNS ==
    << <<"n","e","z","o","b","r","a","z","u","j","e"," ","s","e"," ","v",
            "U00E1","m"," ","n","e","w","s","l","e","t","t","e","r"," ","s",
            "p","r","U00E1","v","n","U011B">>,
       <<"i","f"," ","y","o","u"," ","a","r","e"," ","h","a","v","i","n",
               "g"," ","t","r","o","u","b","l","e"," ","v","i","e","w","i",
               "n","g"," ","t","h","i","s"," ","e","m","a","i","l">>,
       <<"c","l","i","c","k"," ","h","e","r","e"," ","t","o"," ","v","i",
               "e","w"," ","i","n"," ","y","o","u","r"," ","b","r","o","w",
               "s","e","r">>,
       <<"z","o","b","r","a","z","i","t"," ","v"," ","p","r","o","h","l",
               "U00ED","U017E","e","U010D","i">>,
       <<"i","f"," ","y","o","u"," ","c","a","n","'","t"," ","s","e","e",
               " ","i","m","a","g","e","s">>,
       <<"v","i","e","w"," ","i","n"," ","b","r","o","w","s","e","r">>,
       <<"l","o","c","a","l"," ","t","r","a","c","k","i","n","g"," ","p",
               "i","x","e","l">> >>

\* main.py:389
LineDropLits ==
    { <<"u","n","s","u","b","s","c","r","i","b","e">>, <<"o","d","h","l",
            "U00E1","s","i","t">>, <<"p","r","e","f","e","r","e","n","c",
            "e","s">>,
      <<"m","a","n","a","g","e"," ","y","o","u","r"," ","s","u","b","s","c",
              "r","i","p","t","i","o","n">>, <<"p","r","i","v","a","c","y",
              " ","p","o","l","i","c","y">>,
      <<"v","i","e","w"," ","i","n"," ","b","r","o","w","s","e","r">>,
              <<"z","o","b","r","a","z","i","t"," ","v"," ","p","r","o","h",
              "l","U00ED","U010D","e">> }

\* main.py:387
MIN_LINE == 10

\* main.py:379-392
_strip_technical(text) ==
    LET t == RemoveLiterals(text, TECHNICAL_PATTERNS, 1)
        ls == SplitLines(t)
        lines == [k \in 1..Len(ls) |-> Strip(ls[k])]
        useful == SelectSeq(lines, LAMBDA ln :
                      /\ ln # <<>>
                      /\ Len(ln) >= MIN_LINE
                      /\ FindAny(Lower(ln), LineDropLits, 1) = 0)
    IN  Strip(Join(useful, <<"\n", "\n">>))

\* characters that end a match of URL_RE, main.py:377
MainUrlStop(c) == IsSpace(c) \/ c \in {"'", "\"", "<", ">"}

\* URL_RE.sub(lambda m: f"(odkaz zde: {m.group(1)})", t), from position from on
RECURSIVE TagUrlsFrom(_, _, _)
TagUrlsFrom(t, low, from) ==
    LET starts == {k \in from..Len(t) :
                      \E scheme \in {<<"h","t","t","p",":","/","/">>, <<"h",
                              "t","t","p","s",":","/","/">>} :
                          /\ MatchAt(low, k, scheme)
                          /\ k + Len(scheme) <= Len(t)
                          /\ ~MainUrlStop(t[k + Len(scheme)])}
    IN  IF starts = {} THEN SubSeq(t, from, Len(t))
        ELSE LET k == CHOOSE j \in starts : \A i \in starts : j <= i
                 body == IF MatchAt(low, k, <<"h","t","t","p","s",":","/",
                         "/">>) THEN k + 8 ELSE k + 7
                 stops == {j \in body..(Len(t) + 1) : j > Len(t) \/ MainUrlStop(t[j])}
                 e == CHOOSE j \in stops : \A i \in stops : j <= i
             IN  SubSeq(t, from, k - 1) \o <<"(","o","d","k","a","z"," ",
                     "z","d","e",":"," ">> \o SubSeq(t, k, e - 1)
                     \o <<")">> \o TagUrlsFrom(t, low, e)

\* t with every "\r\n" turned into "\n": re.sub(r'\r\n', '\n', t)
DropCarriageReturns(t) ==
    KeepIdx(t, {k \in 1..Len(t) : ~(t[k] = "\r" /\ k < Len(t) /\ t[k + 1] = "\n")},
            1, Len(t))

\* main.py:394-406
html_to_plain_text(html, fallback) ==
    LET t0 == IF html = <<>> /\ fallback # <<>> THEN fallback ELSE HtmlGetText(html)
        t1 == DropCarriageReturns(t0)
        t2 == TagUrlsFrom(t1, Lower(t1), 1)
    IN  Strip(CollapseNewlines(_strip_technical(t2)))

-----------------------------------------------------------------------------
(* src/src/fetch.py: fetch_messages_since                                  *)

\* uid.decode(): the sequence number of the message as characters
UidStr(n) == <<ToString(n)>>

\* fetch.py:133-154: the Date header, else INTERNALDATE, else None
MessageDate(raw) == IF raw.date # NoneInt THEN raw.date ELSE raw.internal_date

\* fetch.py:166-174
Snippet(text) ==
    LET ls == SplitLines(text)
        full == {k \in 1..Len(ls) : Strip(ls[k]) # <<>>}
    IN  IF full = {} THEN <<>>
        ELSE Take(Strip(ls[CHOOSE k \in full : \A j \in full : k <= j]), 400)

\* fetch.py:159-194: the dict appended for the message with sequence number
\* n, th what _extract_text_html returned for it
MessageDict(raw, n, th) ==
    [ uid |-> UidStr(n),
      message_id |-> LET stripped == Strip(OrEmpty(raw.message_id))
                         message_id == IF stripped # <<>> /\ stripped[1] = "<"
                                          /\ stripped[Len(stripped)] = ">"
                                       THEN SubSeq(stripped, 2, Len(stripped) - 1)
                                       ELSE stripped
                     IN  IF message_id = <<>> THEN None ELSE message_id,
      fallback_hash |->
          _compute_fallback_hash(IF raw.subject = None THEN <<"(","n","o",
                  " ","s","u","b","j","e","c","t",")">>
                                 ELSE raw.subject,
                                 MessageDate(raw)[1], th.text),
      subject |-> IF raw.subject = None THEN <<"(","n","o"," ","s","u","b",
              "j","e","c","t",")">> ELSE raw.subject,
      from |-> IF raw.from = None THEN <<"(","n","o"," ","f","r","o","m",
              ")">> ELSE raw.from,
      date |-> MessageDate(raw)[1],
      text |-> th.text,
      html |-> th.html,
      snippet |-> Snippet(th.text),
      is_newsletter |-> _is_newsletter(raw.list_unsubscribe, raw.subject, raw.from,
                                       th.text),
      raw_subject |-> IF raw.subject = None THEN <<"(","n","o"," ","s","u",
              "b","j","e","c","t",")">>
                      ELSE raw.subject ]

\* fetch.py:159-194
FetchedMessage(raw, n) ==
    Strict(LAMBDA th : MessageDict(raw, n, th),
           _extract_text_html(raw.text_part, raw.html_part))

\* the sequence numbers of the messages fetch.py:156-157 does not skip
Dated(inbox) == {n \in 1..Len(inbox) : MessageDate(inbox[n]) # NoneInt}

\* fetch.py:125-197: results before the sort
FetchedResults(inbox) ==
    [k \in 1..Cardinality(Dated(inbox)) |->
        FetchedMessage(inbox[CHOOSE i \in Dated(inbox) :
                                 Cardinality({j \in Dated(inbox) : j <= i}) = k],
                       CHOOSE i \in Dated(inbox) :
                           Cardinality({j \in Dated(inbox) : j <= i}) = k)]

\* fetch.py:103-200 on the messages the search returns
fetch_messages_since(inbox) ==
    StableSort(FetchedResults(inbox), LAMBDA a, b : a.date < b.date)

-----------------------------------------------------------------------------
(* The environment of a run: the messages that can lie in INBOX and the     *)
(* priority files                                                          *)

\* longest mailbox the search returns, besides the scenarios below
MaxBatch == 1
\* runs of main() on the same mailbox
MaxRuns == 2
\* the clock when the first run starts
Now0 == 8
\* failures of library and file calls injected per behaviour
MaxFaults == 1
\* seconds the clock advances while the selection loops of a behaviour run
MaxTicks == 1

NewsText ==
    <<"O","u","r"," ","s","p","r","i","n","g"," ","c","a","t","a","l","o",
            "g","u","e"," ","i","s"," ","o","u","t"," ","n","o","w"," ","w",
            "i","t","h"," ","f","o","r","t","y"," ","n","e","w"," ","t","i",
            "t","l","e","s","."," ","R","e","a","d"," ","m","o","r","e"," ",
            "a","t"," ","h","t","t","p",":","/","/","x",".","c","z","/","a",
            " ","t","o","d","a","y">>
SaleText ==
    <<"B","i","g"," ","s","u","m","m","e","r"," ","s","a","l","e"," ","s",
            "t","a","r","t","s"," ","o","n"," ","M","o","n","d","a","y"," ",
            "w","i","t","h"," ","p","r","i","c","e","s"," ","c","u","t"," ",
            "o","n"," ","e","v","e","r","y"," ","s","h","e","l","f"," ","i",
            "n"," ","e","v","e","r","y"," ","s","h","o","p">>

RawMessage(message_id, subject, frm, date, list_unsubscribe, text_part) ==
    [ message_id |-> message_id, subject |-> subject, from |-> frm,
      date |-> Some(date), internal_date |-> NoneInt,
      list_unsubscribe |-> list_unsubscribe,
      text_part |-> text_part, html_part |-> <<>> ]

Catalog ==
    << RawMessage(<<"<","m","1",">">>, <<"W","e","e","k","l","y"," ","n",
            "e","w","s">>, <<"N","e","w","s"," ","<","A","@","X",".","c",
            "o","m",">">>, 3, TRUE, NewsText),
       RawMessage(<<"<","m","2",">">>, <<"P","l","e","a","s","e"," ","c",
               "o","n","f","i","r","m"," ","y","o","u","r"," ","e","m","a",
               "i","l">>, <<"a","@","x",".","c","o","m">>, 4, TRUE,
                  SaleText),
       RawMessage(<<" ","<","m","1",">"," ">>, <<"H","e","l","l","o">>,
               <<"c","@","y",".","c","o","m">>, 1, FALSE, <<"h","i">>),
       RawMessage(None, <<"O","f","f","e","r">>, <<"b","@","x",".","c","o",
               "m">>, 5, FALSE,
                  <<"T","o"," ","u","n","s","u","b","s","c","r","i","b","e",
                          " ","c","l","i","c","k"," ","h","e","r","e">>),
       RawMessage(None, <<"O","f","f","e","r">>, None, 5, TRUE, <<"T","o",
               " ","u","n","s","u","b","s","c","r","i","b","e"," ","r","e",
               "p","l","y"," ","s","t","o","p">>),
       RawMessage(<<"<"," ",">">>, <<"U","N","S","U","B","S","C","R","I",
               "B","E"," ","o","p","t","i","o","n","s">>, <<"S","h","o","p",
               " ","<","d","@","z",".","c","o","m",">">>, 2, FALSE,
                  <<"Y","o","u"," ","c","a","n"," ","u","n","s","u","b","s",
                          "c","r","i","b","e"," ","a","n","y","t","i","m",
                          "e"," ","y","o","u"," ","l","i","k","e">>),
       RawMessage(<<"<","m","7",">">>, <<"D","a","i","l","y"," ","d","i",
               "g","e","s","t">>, <<"a","@","x",".","c","o","m">>, 6, TRUE,
               SaleText),
       RawMessage(<<"<","m","8",">">>, <<"V","E","R","I","F","Y"," ","y",
               "o","u","r"," ","a","c","c","o","u","n","t">>, <<"c","@","y",
               ".","c","o","m">>, 7, TRUE,
                  <<"h","i"," ","a","l","l">>),
       RawMessage(<<"<"," ",">">>, <<"C","l","u","b"," ","n","e","w","s">>,
               None, 4, TRUE, SaleText),
       RawMessage(<<"<","m","1","0",">">>, <<"M","o","r","n","i","n","g",
               " ","n","e","w","s">>, <<"a","@","x",".","c","o","m">>, 0,
               TRUE, SaleText),
       RawMessage(<<"<","m","1","1",">">>, <<"E","v","e","n","i","n","g",
               " ","n","e","w","s">>, <<"c","@","y",".","c","o","m">>, 0,
               TRUE, NewsText),
       RawMessage(<<"<","m","1","2",">">>, <<"C","l","u","b"," ","l","e",
               "t","t","e","r">>, <<"a","@","x",".","c","o","m">>, 9, TRUE,
                  <<"M","e","e","t"," ","u","s"," ","o","n"," ","F","r","i",
                          "d","a","y","\n","R","e","a","d"," ","o","u","r",
                          " ","p","r","i","v","a","c","y"," ","p","o","l",
                          "i","c","y"," ","t","o","d","a","y">>) >>

\* a message whose Date header is missing or does not parse and whose
\* INTERNALDATE is not obtained either
Undated == [Catalog[7] EXCEPT !.date = NoneInt]

\* a message without a usable Date header, INTERNALDATE 6, no From header and
\* an empty body
InternallyDated ==
    [RawMessage(<<"<","m","1","3",">">>, <<"L","a","t","e"," ","n","e","w",
            "s">>, None, 0, TRUE, <<>>)
         EXCEPT !.date = NoneInt, !.internal_date = Some(6)]

\* priorities [2,1,3,1] at timestamps 2 < 3 < 5 < 6 under SortFile
SortScenario == <<Catalog[6], Catalog[1], Catalog[5], Catalog[7]>>

\* two messages of one Message-ID with another message dated between them
DuplicateScenario == <<Catalog[1], Catalog[6], Catalog[3]>>

\* a listed newsletter with List-Unsubscribe, a confirmation request and a
\* second copy of the first
DigestScenario == <<Catalog[1], Catalog[2], Catalog[1]>>

\* a newsletter, a verification request in upper case and a message that
\* carries the word unsubscribe in its body only
GateScenario == <<Catalog[1], Catalog[8], Catalog[4]>>

\* two newsletters whose Message-ID is "< >", the second without From
BlankIdScenario == <<Catalog[6], Catalog[9]>>

\* two newsletters dated 1 January 1970 00:00:00 UTC
EpochScenario == <<Catalog[10], Catalog[11]>>

\* two messages without a usable Date header, the second with INTERNALDATE
UndatedScenario == <<Undated, InternallyDated>>

\* a newsletter of two short lines, the second about the privacy policy
PolicyScenario == <<Catalog[12]>>

\* a message that is no newsletter, a newsletter, and a newsletter with the
\* Message-ID of the first
ShadowScenario == <<Catalog[3], Catalog[7], Catalog[1]>>

RECURSIVE SeqsUpTo(_, _)
SeqsUpTo(S, n) ==
    IF n = 0 THEN {<<>>}
    ELSE LET shorter == SeqsUpTo(S, n - 1)
         IN  shorter \cup {Append(s, x) : s \in shorter, x \in S}

\* the messages the mailboxes are freely built from: a listed newsletter and
\* one known by the word unsubscribe in its subject; the others occur in the
\* scenarios
Loose == {Catalog[1], Catalog[6]}

\* INBOX as the search returns it: the mailboxes of at most MaxBatch loose
\* messages, and the scenarios
Mailboxes ==
    (SeqsUpTo(Loose, MaxBatch) \ {<<>>})
        \cup {SortScenario, DuplicateScenario, DigestScenario, GateScenario,
              BlankIdScenario, EpochScenario, UndatedScenario,
              PolicyScenario, ShadowScenario}

Row(email, priority) == [email |-> email, priority |-> priority]

\* exact a@x.com -> 1 and the domain row x.com -> 2
DomainFile ==
    [exists |-> TRUE,
     rows |-> <<Row(<<"a","@","x",".","c","o","m">>, <<"1">>), Row(<<"x",
             ".","c","o","m">>, <<"2">>)>>]

SortFile ==
    [exists |-> TRUE,
     rows |-> <<Row(<<" ","A","@","X",".","c","o","m"," ">>, <<"1">>),
             Row(<<"d","@","z",".","c","o","m">>, <<" ","2"," ">>)>>]

MessyFile ==
    [exists |-> TRUE,
     rows |-> <<Row(<<"b","@","x",".","c","o","m">>, <<"2">>), Row(<<"B",
             "@","X",".","C","O","M">>, <<"1">>),
                Row(<<>>, <<"1">>), Row(<<"c","@","y",".","c","o","m">>,
                        <<"h","i","g","h">>),
                Row(<<"d","@","z",".","c","o","m">>, None), Row(<<"a","@",
                        "x",".","c","o","m">>, <<"-","1">>)>>]

MissingFile == [exists |-> FALSE, rows |-> <<>>]

PriorityFiles == {DomainFile, SortFile, MessyFile, MissingFile}

\* the files the runs of the pipeline are checked with
PipelineFiles == {DomainFile, SortFile}

\* the mailbox and the priority file of a behaviour: a scenario with the file
\* it is stated for, any other mailbox with either file
Environments ==
    { <<SortScenario, SortFile>>, <<DuplicateScenario, DomainFile>>,
      <<DigestScenario, DomainFile>>, <<GateScenario, DomainFile>>,
      <<BlankIdScenario, DomainFile>>, <<UndatedScenario, DomainFile>>,
      <<PolicyScenario, DomainFile>>, <<PolicyScenario, MessyFile>>,
      <<PolicyScenario, MissingFile>>, <<ShadowScenario, DomainFile>> }
        \cup ((SeqsUpTo(Loose, MaxBatch) \ {<<>>}) \X PipelineFiles)

-----------------------------------------------------------------------------
(* src/src/main.py: main()                                                 *)

\* main.py:488-489: mid if mid else fallback_hash or uid
MessageKey(m) ==
    LET mid == Strip(OrEmpty(m.message_id))
    IN  IF mid # <<>> THEN mid
        ELSE IF m.fallback_hash # <<>> THEN m.fallback_hash
        ELSE m.uid

\* a plausible slip: a later message of a key replaces the one kept
RECURSIVE DedupeFrom_LastWins(_, _, _, _)
DedupeFrom_LastWins(batch, n, seen, kept) ==
    IF n > Len(batch) THEN kept
    ELSE LET m == batch[n]
             key == MessageKey(m)
         IN  IF key = <<>> THEN DedupeFrom_LastWins(batch, n + 1, seen, kept)
             ELSE IF key \in seen
             THEN DedupeFrom_LastWins(batch, n + 1, seen,
                      [k \in 1..Len(kept) |->
                          IF MessageKey(kept[k]) = key THEN m ELSE kept[k]])
             ELSE DedupeFrom_LastWins(batch, n + 1, seen \cup {key}, Append(kept, m))

\* the loop of main.py:487-493 from message n of the batch on
RECURSIVE DedupeFrom(_, _, _, _)
DedupeFrom(batch, n, seen, kept) ==
    IF n > Len(batch) THEN kept
    ELSE LET m == batch[n]
             key == MessageKey(m)
         IN  IF key = <<>> THEN DedupeFrom(batch, n + 1, seen, kept)
             ELSE IF key \in seen THEN DedupeFrom(batch, n + 1, seen, kept)
             ELSE DedupeFrom(batch, n + 1, seen \cup {key}, Append(kept, m))

\* main.py:486-494
Dedupe(batch) == DedupeFrom(batch, 1, {}, <<>>)

\* main.py:506
DEFAULT_PRIORITY == 3

\* a plausible slip: the subject is not looked at
Passes_AnySubject(m) == m.is_newsletter

\* main.py:498-501: the message is not skipped by the two filters
Passes(m) == m.is_newsletter /\ ~subject_is_excluded(m.subject)

\* a plausible slip: a sender without a priority gets the highest one
ResolvedPriority_Top(from_header, pmap) ==
    LET pr == get_priority_for_sender(from_header, pmap)
    IN  IF pr = NoneInt THEN 1 ELSE pr[1]

\* main.py:503-507
ResolvedPriority(from_header, pmap) ==
    LET pr == get_priority_for_sender(from_header, pmap)
    IN  IF pr = NoneInt THEN DEFAULT_PRIORITY ELSE pr[1]

\* a plausible slip: the markup is kept as fetched
SelectedMessage_RawMarkup(m, pmap, now) ==
    LET ts == parse_date_to_ts(Some(m.date))
    IN  [ _priority |-> ResolvedPriority(m.from, pmap),
          raw_html |-> m.html,
          _date_ts |-> IF ts = 0 THEN now ELSE ts ]
        @@ [m EXCEPT !.date = IsoFormat(m.date)]

\* main.py:503-527: the message as appended to selected; now is the clock
SelectedMessage(m, pmap, now) ==
    LET ts == parse_date_to_ts(Some(m.date))
    IN  [ _priority |-> ResolvedPriority(m.from, pmap),
          raw_html |-> m.html,
          _date_ts |-> IF ts = 0 THEN now ELSE ts ]
        @@ [m EXCEPT !.html = sanitize_html(m.html), !.date = IsoFormat(m.date)]

\* a plausible slip: the newest first, whatever the priority
SortLess_DateOnly(a, b) == a._date_ts > b._date_ts

\* main.py:534: the key (_priority, -_date_ts) of a is below the key of b
SortLess(a, b) ==
    \/ a._priority < b._priority
    \/ a._priority = b._priority /\ a._date_ts > b._date_ts

\* main.py:540
RawId(m) ==
    IF m.message_id # None /\ m.message_id # <<>> THEN m.message_id
    ELSE IF m.fallback_hash # <<>> THEN m.fallback_hash
    ELSE m.uid

\* main.py:550, the pattern of the filter
DropItemLits ==
    { <<"v","i","e","w"," ","i","n"," ","b","r","o","w","s","e","r">>,
            <<"u","n","s","u","b","s","c","r","i","b","e">>, <<"m","a","n",
            "a","g","e"," ","y","o","u","r"," ","s","u","b","s","c","r","i",
            "p","t","i","o","n">>,
      <<"p","r","e","f","e","r","e","n","c","e","s">> }

StrOrEmpty(x) == IF Truthy(x) THEN x.v ELSE <<>>

\* main.py:554
EmptySummary ==
    JDict(<< <<<<"o","v","e","r","v","i","e","w">>, JStr(<<>>)>>, <<<<"i",
            "t","e","m","s">>, JList(<<>>)>> >>)

\* main.py:550-551 on what the extractor returned; the comprehension raises on
\* items that are not a list of dicts, and lines 552-554 take over
FilterItems(summary_obj) ==
    LET its == IF DictHas(summary_obj, <<"i","t","e","m","s">>)
               THEN DictGet(summary_obj, <<"i","t","e","m",
                       "s">>) ELSE JList(<<>>)
        keep(it) ==
            FindAny(Lower(StrOrEmpty(DictGet(it, <<"f","u","l","l","_","t",
                    "e","x","t">>)) \o <<" ">>
                              \o StrOrEmpty(DictGet(it, <<"s","u","m","m",
                                      "a","r","y">>))),
                    DropItemLits, 1) = 0
    IN  IF its.t \notin {"list", "str", "dict"} THEN EmptySummary
        ELSE IF \E k \in 1..Len(its.v) : its.t # "list" \/ its.v[k].t # "dict"
        THEN EmptySummary
        ELSE DictSet(summary_obj, <<"i","t","e","m","s">>,
                JList(SelectSeq(its.v, keep)))

\* main.py:548-554; use_api and gen as for extract_items_from_message
ExtractSummary(m, safe_id, use_api, gen) ==
    FilterItems(extract_items_from_message(m.subject, m.from, m.text, m.html,
                                           safe_id, use_api, gen))

\* base64.b64encode(plain.encode("utf-8")).decode("ascii"), taken as injective
B64(plain) == <<"b64">> \o plain

\* main.py:582-589
MessagePage(m) ==
    IF Strip(m.raw_html) # <<>>
    THEN <<"<","!","d","o","c","t","y","p","e"," ","h","t","m","l",">","<",
            "h","t","m","l",">","<","h","e","a","d",">","<","m","e","t","a",
            " ","c","h","a","r","s","e","t","=","'","u","t","f","-","8","'",
            ">","<","t","i","t","l","e",">">>
             \o m.subject \o <<"<","/","t","i","t","l","e",">","<","/","h",
                     "e","a","d",">","<","b","o","d","y",">">> \o m.raw_html
             \o <<"<","/","b","o","d","y",">","<","/","h","t","m","l",">">>
    ELSE <<"<","!","d","o","c","t","y","p","e"," ","h","t","m","l",">","<",
            "h","t","m","l",">","<","h","e","a","d",">","<","m","e","t","a",
            " ","c","h","a","r","s","e","t","=","'","u","t","f","-","8","'",
            ">","<","t","i","t","l","e",">">>
             \o m.subject \o <<"<","/","t","i","t","l","e",">","<","/","h",
                     "e","a","d",">","<","b","o","d","y",">","<","h","1",
                     ">">> \o m.subject
             \o <<"<","/","h","1",">","<","p","r","e"," ","s","t","y","l",
                     "e","=","'","w","h","i","t","e","-","s","p","a","c",
                     "e",":","p","r","e","-","w","r","a","p",";","'",
                     ">">> \o m.text
             \o <<"<","/","p","r","e",">","<","/","b","o","d","y",">","<",
                     "/","h","t","m","l",">">>

\* main.py:557-578: m after the loop body, and the record j of its JSON file
Emitted(m, safe_id, summary_obj) ==
    LET overview == StrOrEmpty(DictGet(summary_obj, <<"o","v","e","r","v",
            "i","e","w">>))
        items == IF Truthy(DictGet(summary_obj, <<"i","t","e","m","s">>))
                 THEN DictGet(summary_obj, <<"i","t","e","m",
                         "s">>).v ELSE <<>>
        raw_html == m.raw_html
        plain == html_to_plain_text(IF raw_html # <<>> THEN raw_html ELSE m.text,
                                    <<>>)
    IN  [ m |-> [safe_id |-> safe_id, overview |-> overview, _items |-> items,
                 plain_b64 |-> B64(plain)] @@ m,
          j |-> [subject |-> m.subject, from |-> m.from, date |-> m.date,
                 priority |-> m._priority, items |-> items,
                 overview |-> overview, plain_text |-> plain] ]

-----------------------------------------------------------------------------
(* The runs of main() on a mailbox                                         *)

NoCall == [fn |-> "none"]

\* no run of main() has ended yet
NoRun == [pc |-> "none"]

\* fetch_new_messages is not called
NoSession == [pc |-> "none"]

\* main() about to start for the first time, in one of the environments envs
Started(envs) ==
    /\ \E e \in envs : mailbox = e[1] /\ priority_file = e[2]
    /\ pc = "start"
    /\ run = 1
    /\ clock = Now0
    /\ priority_map = EmptyMap
    /\ msgs = <<>>
    /\ unique = <<>>
    /\ selected = <<>>
    /\ selected_sorted = <<>>
    /\ idx = 0
    /\ skipped = {}
    /\ cache = EmptyMap
    /\ artifacts = EmptyMap
    /\ digest = <<>>
    /\ trace = <<>>
    /\ faults = 0
    /\ first_run = NoRun
    /\ call = NoCall
    /\ ret = NoCall
    /\ imap = NoSession

Init == Started(Environments)

\* main.py:474-483
Fetch ==
    /\ pc = "start"
    /\ priority_map' = load_priority_map(priority_file)
    /\ msgs' = fetch_messages_since(mailbox)
    /\ pc' = "dedupe"
    /\ UNCHANGED <<mailbox, priority_file, run, clock, unique, selected,
                   selected_sorted, idx, skipped, cache, artifacts, digest,
                   trace, faults, first_run, call, ret, imap>>

\* main.py:486-494
Deduplicate ==
    /\ pc = "dedupe"
    /\ unique' = Dedupe(msgs)
    /\ idx' = 1
    /\ pc' = "select"
    /\ UNCHANGED <<mailbox, priority_file, run, clock, priority_map, msgs,
                   selected, selected_sorted, skipped, cache, artifacts,
                   digest, trace, faults, first_run, call, ret, imap>>

\* main.py:497-529: one turn of the loop over unique; raises is whether a
\* call of lines 503-527 raises, which line 528 catches
Select ==
    /\ pc = "select"
    /\ idx <= Len(unique)
    /\ LET m == unique[idx]
       IN  \E raises \in BOOLEAN :
               /\ raises => Passes(m) /\ faults < MaxFaults
               /\ faults' = IF raises THEN faults + 1 ELSE faults
               /\ skipped' = IF raises THEN skipped \cup {m.uid} ELSE skipped
               /\ selected' = IF Passes(m) /\ ~raises
                              THEN Append(selected,
                                          SelectedMessage(m, priority_map, clock))
                              ELSE selected
    /\ idx' = idx + 1
    /\ UNCHANGED <<mailbox, priority_file, pc, run, clock, priority_map, msgs,
                   unique, selected_sorted, cache, artifacts, digest, trace,
                   first_run, call, ret, imap>>

\* main.py:515: the second of datetime.utcnow() changes while the loop runs;
\* the clock is let advance before a turn that reads it
Tick ==
    /\ pc = "select"
    /\ idx <= Len(unique)
    /\ Passes(unique[idx])
    /\ parse_date_to_ts(Some(unique[idx].date)) = 0
    /\ clock - Now0 - (run - 1) < MaxTicks
    /\ clock' = clock + 1
    /\ UNCHANGED <<mailbox, priority_file, pc, run, priority_map, msgs, unique,
                   selected, selected_sorted, idx, skipped, cache, artifacts,
                   digest, trace, faults, first_run, call, ret, imap>>

\* main.py:534
Sort ==
    /\ pc = "select"
    /\ idx > Len(unique)
    /\ selected_sorted' = StableSort(selected, SortLess)
    /\ idx' = 1
    /\ pc' = "emit"
    /\ UNCHANGED <<mailbox, priority_file, run, clock, priority_map, msgs,
                   unique, selected, skipped, cache, artifacts, digest, trace,
                   faults, first_run, call, ret, imap>>

\* a plausible slip: on a miss the empty summary is recorded and emitted,
\* the extractor is not called
Summarized_NoRetry(cached, fresh) ==
    IF cached # JNull
    THEN [summary_obj |-> cached, extracted |-> FALSE, saved |-> FALSE]
    ELSE [summary_obj |-> EmptySummary, extracted |-> FALSE, saved |-> TRUE]

\* a plausible slip: the extractor runs and the file is written on a hit too
Summarized_Always(cached, fresh) ==
    [summary_obj |-> fresh, extracted |-> TRUE, saved |-> TRUE]

\* main.py:544-555: summary_obj, and whether the extractor and save_cache
\* are called; cached is what load_cache returned, fresh what lines 548-554
\* leave in summary_obj when they run; line 555 follows the try statement on
\* either way out of it
Summarized(cached, fresh) ==
    IF cached # JNull
    THEN [summary_obj |-> cached, extracted |-> FALSE, saved |-> FALSE]
    ELSE [summary_obj |-> fresh, extracted |-> TRUE, saved |-> TRUE]

\* main.py:579-590: the files of data/messages after the two writes; stored
\* is how far they get before one raises
Written(files, safe_id, m, j, stored) ==
    IF stored = "none" THEN files
    ELSE MapPut(files, safe_id,
                [json |-> j,
                 html |-> IF stored = "both" THEN MessagePage(m) ELSE None])

\* main.py:539-590: one turn of the loop over selected_sorted.  readable and
\* written are whether the read and the write of the cache file succeed,
\* raised whether a call of lines 549-551 raises, which line 552 catches,
\* torn whether a failed write of the cache file cut it short, stored how far
\* the two writes of lines 579 and 590 get; failed counts the failures of the
\* turn
Emit ==
    /\ pc = "emit"
    /\ idx <= Len(selected_sorted)
    /\ \E safe_id \in {safe_id_for(RawId(selected_sorted[idx]))} :
       \E readable, raised \in BOOLEAN :
           /\ ~readable => safe_id \in DOMAIN cache
           /\ faults + (IF readable THEN 0 ELSE 1) + (IF raised THEN 1 ELSE 0)
                  <= MaxFaults
           /\ \E cached \in {load_cache(cache, safe_id, readable)} :
                  /\ raised => cached = JNull
                  /\ \E s \in {Summarized(
                                    cached,
                                    IF raised THEN EmptySummary
                                    ELSE ExtractSummary(selected_sorted[idx],
                                                        safe_id, USE_API,
                                                        StubResponse))} :
                     \E out \in {Emitted(selected_sorted[idx], safe_id,
                                         s.summary_obj)} :
                     \E written, torn \in BOOLEAN :
                     \E stored \in {"both", "json", "none"} :
                     \E failed \in {(IF readable THEN 0 ELSE 1)
                                       + (IF raised THEN 1 ELSE 0)
                                       + (IF written THEN 0 ELSE 1)
                                       + (IF stored = "both" THEN 0 ELSE 1)} :
                         /\ ~written => s.saved
                         /\ torn => ~written
                         /\ faults + failed <= MaxFaults
                         /\ faults' = faults + failed
                         /\ cache' = IF s.saved
                                     THEN save_cache(cache, safe_id,
                                                     s.summary_obj, written,
                                                     torn)
                                     ELSE cache
                         /\ trace' = Append(trace,
                                            [safe_id |-> safe_id,
                                             uid |-> selected_sorted[idx].uid,
                                             exists |-> safe_id \in DOMAIN cache,
                                             cached |-> cached,
                                             extracted |-> s.extracted,
                                             saved |-> s.saved,
                                             raised |-> raised,
                                             readable |-> readable,
                                             written |-> written,
                                             torn |-> torn,
                                             stored |-> stored,
                                             overview |-> out.m.overview,
                                             _items |-> out.m._items])
                         /\ selected_sorted' =
                                [selected_sorted EXCEPT ![idx] = out.m]
                         /\ artifacts' = Written(artifacts, safe_id,
                                                 selected_sorted[idx], out.j,
                                                 stored)
                         /\ pc' = IF stored = "both" THEN "emit" ELSE "aborted"
                         /\ idx' = IF stored = "both" THEN idx + 1 ELSE idx
    /\ UNCHANGED <<mailbox, priority_file, run, clock, priority_map, msgs,
                   unique, selected, skipped, digest, first_run, call, ret, imap>>

\* main.py:592-598
Render ==
    /\ pc = "emit"
    /\ idx > Len(selected_sorted)
    /\ digest' = selected_sorted
    /\ pc' = "done"
    /\ UNCHANGED <<mailbox, priority_file, run, clock, priority_map, msgs,
                   unique, selected, selected_sorted, idx, skipped, cache,
                   artifacts, trace, faults, first_run, call, ret, imap>>

\* main() is started again, later, on the same mailbox and priority file
NextRun ==
    /\ pc \in {"done", "aborted"}
    /\ run < MaxRuns
    /\ run' = run + 1
    /\ clock' = clock + 1
    /\ pc' = "start"
    /\ priority_map' = EmptyMap
    /\ msgs' = <<>>
    /\ unique' = <<>>
    /\ selected' = <<>>
    /\ selected_sorted' = <<>>
    /\ idx' = 0
    /\ skipped' = {}
    /\ digest' = <<>>
    /\ trace' = <<>>
    /\ first_run' = IF first_run = NoRun THEN [pc |-> pc, digest |-> digest]
                    ELSE first_run
    /\ UNCHANGED <<mailbox, priority_file, cache, artifacts, faults, call, ret, imap>>

Next ==
    \/ Fetch
    \/ Deduplicate
    \/ Select
    \/ Sort
    \/ Emit
    \/ Render
    \/ NextRun

Spec == Init /\ [][Next]_vars

\* one run of main() on the messages whose date is the epoch, the only ones
\* line 515 reads the clock for, with the clock advancing
ClockInit == Started({EpochScenario} \X PipelineFiles)

ClockNext ==
    \/ Fetch
    \/ Deduplicate
    \/ Select
    \/ Tick
    \/ Sort
    \/ Emit
    \/ Render

SpecClock == ClockInit /\ [][ClockNext]_vars

-----------------------------------------------------------------------------
(* The functions of the pipeline applied on their own: call is the          *)
(* application, ret.returned what it returned; a behaviour makes one call    *)

\* display names and addresses the From headers are built from
DisplayNames == {None, <<"N","e","w","s">>, <<"S","h","o","p"," ","T","e",
        "a","m">>}

Addresses ==
    { <<"a","@","x",".","c","o","m">>, <<"A","@","X",".","c","o","m">>,
            <<"b","@","x",".","c","o","m">>, <<"B","@","x",".","C","O",
            "M">>, <<"c","@","y",".","c","o","m">>,
      <<"d","@","z",".","c","o","m">>, <<>> }

\* the From header of a sender: "address" or "Name <address>"
FromHeader(name, address) ==
    IF name = None THEN address ELSE name \o <<" ",
            "<">> \o address \o <<">">>

\* a response of the generative service with thirteen sections
ManySections ==
    <<"{","\"","o","v","e","r","v","i","e","w","\"",":"," ","\"","o","\"",
            ","," ","\"","i","t","e","m","s","\"",":"," ">> \o <<"[">>
        \o <<"{","}",","," ","{","}",","," ","{","}",","," ","{","}",",",
                " ","{","}",","," ","{","}",","," ","{","}",","," ","{","}",
                ","," ","{","}",","," ","{","}",","," ","{","}",","," ","{",
                "}",","," ","{","}">> \o <<"]">>
        \o <<"}">>

\* what a call of the generative service can do
GenOutcomes ==
    { [raises |-> TRUE, resp |-> None],
      [raises |-> FALSE, resp |-> None],
      [raises |-> FALSE, resp |-> <<>>],
      [raises |-> FALSE, resp |-> <<"S","o","r","r","y",","," ","I"," ","c",
              "a","n","n","o","t"," ","h","e","l","p">>],
      [raises |-> FALSE, resp |-> <<"{","\"","o","v","e","r","v","i","e",
              "w","\"",":"," ","\"","o","\"",","," ","\"","i","t","e","m",
              "s","\"",":"," ">>],
      [raises |-> FALSE, resp |-> <<"[">> \o <<"\"","o","\"">> \o <<"]">>],
      [raises |-> FALSE, resp |-> <<"{","\"","o","v","e","r","v","i","e",
              "w","\"",":"," ","\"","o","\"","}">>],
      [raises |-> FALSE, resp |-> <<"{","\"","o","v","e","r","v","i","e",
              "w","\"",":"," ","\"","o","\"",","," ","\"","i","t","e","m",
              "s","\"",":"," ">> \o <<"[", "]">>
                                      \o <<"}">> ],
      [raises |-> FALSE, resp |-> <<"{","\"","i","t","e","m","s","\"",":",
              " ">> \o <<"[", "]">> \o <<"}">> ],
      [raises |-> FALSE, resp |-> <<"{","\"","o","v","e","r","v","i","e",
              "w","\"",":"," ","\"","o","\"",","," ","\"","i","t","e","m",
              "s","\"",":"," ","\"","x","\"","}">>],
      [raises |-> FALSE, resp |-> ManySections] }

\* extraction results with the characters JSON escapes, a letter outside
\* ASCII, an item without a link and no item at all
QuotedResult ==
    JDict(<< <<<<"o","v","e","r","v","i","e","w">>, JStr(<<"a", "\"", "b",
            "\\", "c", "\n", "d", "\t">>)>>,
             <<<<"i","t","e","m","s">>,
               JList(<< Item(<<"Z","p","r","U00E1","v","a">>, <<"\\",
                       "\"">>, <<"x",","," ","\"","y","\"",":"," ","{","z",
                       "}">>, None),
                        Item(<<>>, <<"n","u","l","l">>, <<"[", "1", "]">>,
                             <<"h","t","t","p",":","/","/","x",".","c","z",
                                     "/","a","?","b","=","1","&","c","=",
                                     "2">>) >>)>> >>)

Results ==
    {_naive_sections(FetchedMessage(Catalog[k], k).text,
                     FetchedMessage(Catalog[k], k).html) : k \in 1..Len(Catalog)}
        \cup {QuotedResult, EmptySummary}

\* keys of cache records
Keys == {safe_id_for(<<"m","1">>), safe_id_for(<<"m","2">>)}

\* CACHE_DIR before the call: empty, or holding a record of the first key
CacheDirs == {EmptyMap, MapPut(EmptyMap, safe_id_for(<<"m","1">>),
        JsonDumps(EmptySummary))}

\* markup given to sanitize_html: text that holds the word twice over, a
\* script element, the word in capitals inside an allowed tag, text with "<"
\* and an entity, and markup with nothing to remove
Markups ==
    { <<"j","a","v","a","j","a","v","a","s","c","r","i","p","t",":","s","c",
            "r","i","p","t",":">>, <<"<","s","c","r","i","p","t",">","a",
            "l","e","r","t","(","1",")","<","/","s","c","r","i","p","t",
            ">">>,
      <<"<","b",">","J","a","v","a","S","c","r","i","p","t",":","x","<","/",
              "b",">">>, <<"a"," ","<"," ","b"," ","&","l","t",";","s","c",
              "r","i","p","t","&","g","t",";">>, <<"<","p",">","H","e","l",
              "l","o","<","/","p",">">>, <<>> }

\* bodies given to html_to_plain_text: with an absolute URL, without one,
\* with markup around the text, and empty
Bodies ==
    { <<"R","e","a","d"," ","m","o","r","e"," ","a","t"," ","h","t","t","p",
            ":","/","/","x",".","c","z","/","a"," ","t","o","d","a","y"," ",
            "a","n","d"," ","t","o","m","o","r","r","o","w">>,
      <<"<","p",">","W","e","e","k","l","y"," ","n","e","w","s"," ","f","o",
              "r"," ","a","l","l"," ","r","e","a","d","e","r","s","<","/",
              "p",">">>,
      <<"N","o","t","h","i","n","g"," ","t","o"," ","f","o","l","l","o","w",
              " ","i","n"," ","t","h","i","s"," ","o","n","e">>, <<>> }

\* a paragraph of more than 60 characters that begins with the digit d
LongParagraph(d) ==
    <<"P","a","r","t"," ">> \o <<d>>
        \o <<" ","o","f"," ","t","h","e"," ","l","e","t","t","e","r"," ",
                "t","e","l","l","s"," ","a","t"," ","l","e","n","g","t","h",
                " ","a","b","o","u","t"," ","o","n","e"," ","o","f"," ","t",
                "h","e"," ","n","i","n","e"," ","t","h","i","n","g","s"," ",
                "w","e"," ","d","o">>

\* messages for the extractor alone: one of nine long paragraphs and one of
\* five short lines
LetterMessages ==
    << RawMessage(<<"<","m","2","1",">">>, <<"L","o","n","g"," ","l","e",
            "t","t","e","r">>, <<"a","@","x",".","c","o","m">>, 3, TRUE,
                  Join([k \in 1..9 |-> LongParagraph(<<"1", "2", "3", "4",
                          "5", "6",
                                                       "7", "8", "9">>[k])],
                       <<"\n">>)),
       RawMessage(<<"<","m","2","2",">">>, <<"S","h","o","r","t"," ","l",
               "e","t","t","e","r">>, <<"a","@","x",".","c","o","m">>, 3,
               TRUE,
                  <<"F","i","r","s","t"," ","l","i","n","e","\n","S","e",
                          "c","o","n","d"," ","l","i","n","e","\n","T","h",
                          "i","r","d"," ","l","i","n","e","\n","F","o","u",
                          "r","t","h"," ","l","i","n","e","\n","F","i","f",
                          "t","h"," ","l","i","n","e">>) >>

\* main() is not running
Idle ==
    /\ mailbox = <<>>
    /\ priority_file = MissingFile
    /\ pc = "unit"
    /\ run = 0
    /\ clock = Now0
    /\ priority_map = EmptyMap
    /\ msgs = <<>>
    /\ unique = <<>>
    /\ selected = <<>>
    /\ selected_sorted = <<>>
    /\ idx = 0
    /\ skipped = {}
    /\ cache = EmptyMap
    /\ artifacts = EmptyMap
    /\ digest = <<>>
    /\ trace = <<>>
    /\ faults = 0
    /\ first_run = NoRun

UnitInit ==
    /\ Idle
    /\ call = NoCall
    /\ ret = NoCall
    /\ imap = NoSession

\* get_priority_for_sender(from_header, load_priority_map(PRIORITY_FILE))
CallPriority ==
    /\ call = NoCall
    /\ \E name \in DisplayNames, address \in Addresses, file \in PriorityFiles :
           /\ call' = [fn |-> "get_priority_for_sender", name |-> name,
                       address |-> address, file |-> file,
                       from_header |-> FromHeader(name, address)]
           /\ ret' = [fn |-> "get_priority_for_sender",
                       returned |-> get_priority_for_sender(
                                     FromHeader(name, address),
                                     load_priority_map(file))]
    /\ UNCHANGED <<pipelineVars, imap>>

\* extract_items_from_message on a fetched message, USE_API either way
CallExtract ==
    /\ call = NoCall
    /\ \E k \in 1..(Len(Catalog) + Len(LetterMessages)), use_api \in BOOLEAN,
          gen \in GenOutcomes :
       \E m \in {FetchedMessage((Catalog \o LetterMessages)[k], k)} :
           /\ ~use_api => gen = StubResponse
           /\ call' = [fn |-> "extract_items_from_message", text |-> m.text,
                       html |-> m.html, use_api |-> use_api, gen |-> gen]
           /\ ret' = [fn |-> "extract_items_from_message",
                       returned |-> extract_items_from_message(
                                     m.subject, m.from, m.text, m.html, m.uid,
                                     use_api, gen)]
    /\ UNCHANGED <<pipelineVars, imap>>

\* save_cache(uid, data) and then load_cache(uid), on the files of CACHE_DIR
CallCache ==
    /\ call = NoCall
    /\ \E uid \in Keys, data \in Results, files \in CacheDirs,
          written, readable, torn \in BOOLEAN :
           /\ torn => ~written
           /\ call' = [fn |-> "save_cache;load_cache", uid |-> uid, data |-> data,
                       files |-> files, written |-> written, torn |-> torn,
                       readable |-> readable]
           /\ ret' = [fn |-> "save_cache;load_cache",
                       returned |-> load_cache(save_cache(files, uid, data, written,
                                                          torn),
                                               uid, readable)]
    /\ UNCHANGED <<pipelineVars, imap>>

\* save_cache(uid1, data1) and then save_cache(uid2, data2), on the files of
\* CACHE_DIR; first and second are the files after each call
CallSaveTwice ==
    /\ call = NoCall
    /\ \E uid1, uid2 \in Keys, data1, data2 \in {QuotedResult, EmptySummary},
          files \in CacheDirs, written1, torn1, written2, torn2 \in BOOLEAN :
       \E first \in {save_cache(files, uid1, data1, written1, torn1)} :
           /\ torn1 => ~written1
           /\ torn2 => ~written2
           /\ call' = [fn |-> "save_cache;save_cache", files |-> files,
                       uid1 |-> uid1, data1 |-> data1, written1 |-> written1,
                       uid2 |-> uid2, data2 |-> data2, written2 |-> written2]
           /\ ret' = [fn |-> "save_cache;save_cache",
                      returned |-> [first |-> first,
                                    second |-> save_cache(first, uid2, data2,
                                                          written2, torn2)]]
    /\ UNCHANGED <<pipelineVars, imap>>

\* sanitize_html(html_content)
CallSanitize ==
    /\ call = NoCall
    /\ \E html_content \in Markups :
           /\ call' = [fn |-> "sanitize_html", html_content |-> html_content]
           /\ ret' = [fn |-> "sanitize_html",
                       returned |-> sanitize_html(html_content)]
    /\ UNCHANGED <<pipelineVars, imap>>

\* html_to_plain_text(x), and html_to_plain_text applied to what it returned
CallPlainText ==
    /\ call = NoCall
    /\ \E x \in Bodies :
       \E once \in {html_to_plain_text(x, <<>>)} :
           /\ call' = [fn |-> "html_to_plain_text", html |-> x]
           /\ ret' = [fn |-> "html_to_plain_text",
                       returned |-> [once |-> once,
                                     twice |-> html_to_plain_text(once, <<>>)]]
    /\ UNCHANGED <<pipelineVars, imap>>

UnitNext ==
    \/ CallPriority
    \/ CallExtract
    \/ CallCache
    \/ CallSaveTwice
    \/ CallSanitize
    \/ CallPlainText

SpecUnit == UnitInit /\ [][UnitNext]_vars


-----------------------------------------------------------------------------
(* src/src/imap_ingest.py: fetch_new_messages on one folder of the server. *)
(* imap holds the arguments (sources, processed_ids), the folder as it was  *)
(* (before) and as it is (server: for each uid the flags, where the message *)
(* lies and whether the archive holds a copy), the position of the loops    *)
(* (pc, src, ids, n), the result (messages) and the calls made for each     *)
(* message (ops).  A call of the client may raise; failed counts them.      *)

\* longest folder the search is run on
MaxInbox == 2

\* messages that can lie unseen in the folder: from a listed sender, from
\* another sender, one whose Message-ID is already processed, and one
\* without Message-ID that carries \Deleted
InboxMessages ==
    { [from |-> <<"N","e","w","s"," ","<","A","@","X",".","c","o","m",">">>,
            message_id |-> <<"<","m","1",">">>, deleted |-> FALSE],
      [from |-> <<"S","h","o","p"," ","<","b","@","y",".","c","o","m",">">>,
              message_id |-> <<"<","m","2",">">>, deleted |-> FALSE],
      [from |-> <<"N","e","w","s"," ","<","a","@","x",".","c","o","m",">">>,
              message_id |-> <<"<","m","3",">">>, deleted |-> FALSE],
      [from |-> <<"S","h","o","p"," ","<","b","@","y",".","c","o","m",">">>,
              message_id |-> None, deleted |-> TRUE] }

\* config/sources.yaml: one source, a disabled source before it, and a second
\* source without pattern
SourceLists ==
    { << [enabled |-> TRUE, from_pattern |-> <<"X",".","c","o","m">>] >>,
      << [enabled |-> FALSE, from_pattern |-> <<>>],
         [enabled |-> TRUE, from_pattern |-> <<"x",".","c","o","m">>] >>,
      << [enabled |-> TRUE, from_pattern |-> <<"x",".","c","o","m">>],
         [enabled |-> TRUE, from_pattern |-> <<>>] >> }

ProcessedIds == {<<"<","m","3",">">>}

\* the folder when the function is called: every message unseen
Folder(inbox) ==
    [uid \in 1..Len(inbox) |->
        [seen |-> FALSE, deleted |-> inbox[uid].deleted, where |-> "inbox",
         copied |-> FALSE]]

IngestInit ==
    /\ Idle
    /\ call = NoCall
    /\ ret = NoCall
    /\ \E inbox \in SeqsUpTo(InboxMessages, MaxInbox) \ {<<>>},
          sources \in SourceLists :
           imap = [pc |-> "connect", sources |-> sources,
                   processed_ids |-> ProcessedIds, inbox |-> inbox,
                   before |-> Folder(inbox), server |-> Folder(inbox),
                   src |-> 0, ids |-> <<>>, n |-> 0, messages |-> <<>>,
                   ops |-> <<>>, failed |-> 0]

\* imap_ingest.py:92: the Message-ID header, '<uid>' when there is none
IngestMessageId(m, uid) ==
    IF m.message_id = None THEN <<"<">> \o UidStr(uid) \o <<">">>
    ELSE m.message_id

\* imap_ingest.py:95-99: the message is skipped for the source
IngestSkips(m, uid, source, processed_ids) ==
    \/ /\ Lower(source.from_pattern) # <<>>
       /\ ~Contains(Lower(m.from), Lower(source.from_pattern))
    \/ IngestMessageId(m, uid) \in processed_ids

\* client.search(['UNSEEN']) on the selected folder, in uid order
Unseen(server) ==
    SelectSeq([uid \in 1..Len(server) |-> uid],
              LAMBDA uid : server[uid].where = "inbox" /\ ~server[uid].seen)

\* a call made for the message the loop is at
Op(op, ok) == [src |-> imap.src, uid |-> imap.ids[imap.n], op |-> op, ok |-> ok]

\* imap_ingest.py:51-62 and 168-170: the connection and the login
Connect ==
    /\ imap.pc = "connect"
    /\ \E ok \in BOOLEAN :
           /\ ~ok => imap.failed < MaxFaults
           /\ imap' = IF ok THEN [imap EXCEPT !.pc = "source", !.src = 1]
                      ELSE [imap EXCEPT !.pc = "raised", !.failed = @ + 1]
    /\ UNCHANGED <<pipelineVars, call, ret>>

\* imap_ingest.py:65-84 and 164-166: the next source.  The folder is selected
\* for writing and the messages are fetched with RFC822, which sets \Seen on
\* every message fetched (RFC 3501, 6.4.5)
OpenSource ==
    /\ imap.pc = "source"
    /\ imap.src <= Len(imap.sources)
    /\ \E ok \in BOOLEAN :
       \E ids \in {Unseen(imap.server)} :
           /\ ~ok => imap.sources[imap.src].enabled /\ imap.failed < MaxFaults
           /\ imap' =
                  IF ~imap.sources[imap.src].enabled
                  THEN [imap EXCEPT !.src = @ + 1]
                  ELSE IF ~ok
                  THEN [imap EXCEPT !.src = @ + 1, !.failed = @ + 1]
                  ELSE IF ids = <<>>
                  THEN [imap EXCEPT !.src = @ + 1]
                  ELSE [imap EXCEPT
                            !.pc = "message", !.ids = ids, !.n = 1,
                            !.server = [uid \in DOMAIN imap.server |->
                                           IF \E k \in 1..Len(ids) : ids[k] = uid
                                           THEN [imap.server[uid] EXCEPT
                                                     !.seen = TRUE]
                                           ELSE imap.server[uid]]]
    /\ UNCHANGED <<pipelineVars, call, ret>>

\* imap_ingest.py:86-138 and 160-162: the next message fetched is skipped,
\* or appended to messages, or a call of lines 88-127 raises
Examine ==
    /\ imap.pc = "message"
    /\ imap.n <= Len(imap.ids)
    /\ \E ok \in BOOLEAN :
       \E uid \in {imap.ids[imap.n]} :
           /\ ~ok => imap.failed < MaxFaults
           /\ imap' =
                  IF ~ok
                  THEN [imap EXCEPT !.n = @ + 1, !.failed = @ + 1,
                                    !.ops = Append(@, Op("raised", FALSE))]
                  ELSE IF IngestSkips(imap.inbox[uid], uid,
                                      imap.sources[imap.src], imap.processed_ids)
                  THEN [imap EXCEPT !.n = @ + 1,
                                    !.ops = Append(@, Op("skip", TRUE))]
                  ELSE [imap EXCEPT
                            !.pc = "seen",
                            !.messages =
                                Append(@, [message_id |->
                                               IngestMessageId(imap.inbox[uid],
                                                               uid),
                                           uid |-> uid,
                                           from |-> imap.inbox[uid].from,
                                           source |-> imap.src]),
                            !.ops = Append(@, Op("append", TRUE))]
    /\ UNCHANGED <<pipelineVars, call, ret>>

\* imap_ingest.py:86: the messages of the source are through
CloseSource ==
    /\ imap.pc = "message"
    /\ imap.n > Len(imap.ids)
    /\ imap' = [imap EXCEPT !.pc = "source", !.src = @ + 1]
    /\ UNCHANGED <<pipelineVars, call, ret>>

\* one call of lines 143-155 for the message the loop is at: on success the
\* folder becomes after and the function goes on at next; a call that raises
\* goes to onFailure
ClientCall(at, op, after, next, onFailure) ==
    /\ imap.pc = at
    /\ \E ok \in BOOLEAN :
           /\ ~ok => imap.failed < MaxFaults
           /\ imap' =
                  IF ok
                  THEN [imap EXCEPT !.server = after, !.pc = next,
                                    !.n = IF next = "message" THEN @ + 1 ELSE @,
                                    !.ops = Append(@, Op(op, TRUE))]
                  ELSE [imap EXCEPT !.pc = onFailure, !.failed = @ + 1,
                                    !.n = IF onFailure = "message" THEN @ + 1
                                          ELSE @,
                                    !.ops = Append(@, Op(op, FALSE))]
    /\ UNCHANGED <<pipelineVars, call, ret>>

\* imap_ingest.py:143; a failure goes to line 157
AddSeen ==
    ClientCall("seen", "seen",
               [imap.server EXCEPT ![imap.ids[imap.n]].seen = TRUE],
               "move", "message")

\* imap_ingest.py:148; a failure goes to line 150
Move ==
    ClientCall("move", "move",
               [imap.server EXCEPT ![imap.ids[imap.n]].where = "archive"],
               "message", "copy")

\* imap_ingest.py:153; a failure goes to line 157
Copy ==
    ClientCall("copy", "copy",
               [imap.server EXCEPT ![imap.ids[imap.n]].copied = TRUE],
               "deleted", "message")

\* imap_ingest.py:154
AddDeleted ==
    ClientCall("deleted", "deleted",
               [imap.server EXCEPT ![imap.ids[imap.n]].deleted = TRUE],
               "expunge", "message")

\* imap_ingest.py:155: expunge() removes every message of the folder that
\* carries \Deleted
Expunge ==
    ClientCall("expunge", "expunge",
               [uid \in DOMAIN imap.server |->
                   IF imap.server[uid].where = "inbox" /\ imap.server[uid].deleted
                   THEN [imap.server[uid] EXCEPT !.where = "gone"]
                   ELSE imap.server[uid]],
               "message", "message")

\* imap_ingest.py:172
Return ==
    /\ imap.pc = "source"
    /\ imap.src > Len(imap.sources)
    /\ imap' = [imap EXCEPT !.pc = "returned"]
    /\ UNCHANGED <<pipelineVars, call, ret>>

IngestNext ==
    \/ Connect
    \/ OpenSource
    \/ Examine
    \/ CloseSource
    \/ AddSeen
    \/ Move
    \/ Copy
    \/ AddDeleted
    \/ Expunge
    \/ Return

SpecIngest == IngestInit /\ [][IngestNext]_vars
-----------------------------------------------------------------------------
(* Properties of the runs of main() (Spec) and of the functions (SpecUnit)  *)

\* C1: once main() has deduplicated the fetched batch, every MessageKey of the
\* batch has exactly one message in unique, that message is the first of the
\* key in batch order, and unique keeps the batch order
C1_DedupeKeepsFirst ==
    pc \notin {"start", "dedupe"} =>
        LET at(key) == {n \in 1..Len(msgs) : MessageKey(msgs[n]) = key}
            first(key) == CHOOSE n \in at(key) : \A j \in at(key) : n <= j
            pos(k) == CHOOSE n \in 1..Len(msgs) : msgs[n] = unique[k]
        IN  /\ \A n \in 1..Len(msgs) :
                   /\ Cardinality({k \in 1..Len(unique) :
                          MessageKey(unique[k]) = MessageKey(msgs[n])}) = 1
                   /\ \E k \in 1..Len(unique) :
                          unique[k] = msgs[first(MessageKey(msgs[n]))]
            /\ \A k \in 1..Len(unique) : \E n \in 1..Len(msgs) : msgs[n] = unique[k]
            /\ \A i, j \in 1..Len(unique) : i < j => pos(i) < pos(j)

\* two messages of one key with another message between them, one of them kept
C1_Witness ==
    /\ pc = "select"
    /\ Len(msgs) = 3
    /\ MessageKey(msgs[1]) = MessageKey(msgs[3])
    /\ MessageKey(msgs[1]) # MessageKey(msgs[2])
    /\ unique = <<msgs[1], msgs[2]>>

C3_ExactLookupIgnoresCase ==
    call.fn = "get_priority_for_sender" =>
        LET table == load_priority_map(call.file)
        IN  Lower(call.address) \in DOMAIN table =>
                ret.returned = Some(table[Lower(call.address)])

\* an upper-case address behind a display name found the row of a@x.com
C3_Witness ==
    /\ call.fn = "get_priority_for_sender"
    /\ call.name = <<"N","e","w","s">>
    /\ call.address = <<"A","@","X",".","c","o","m">>
    /\ call.file = DomainFile
    /\ ret.returned = Some(1)

\* C4: every selected message carries the priority of its table entry, or 3
\* when its sender resolves to none; and a message that passes the classifier
\* and whose sender resolves to none is not dropped for that: once the loop is
\* over it is in selected with priority 3, unless line 528 logged it as raised
C4_UnresolvedGetsThree ==
    /\ \A k \in 1..Len(selected) :
           selected[k]._priority =
               IF get_priority_for_sender(selected[k].from, priority_map) = NoneInt
               THEN 3
               ELSE get_priority_for_sender(selected[k].from, priority_map)[1]
    /\ pc \in {"emit", "done", "aborted"} =>
           \A i \in 1..Len(unique) :
               ( /\ unique[i].is_newsletter
                 /\ ~subject_is_excluded(unique[i].subject)
                 /\ get_priority_for_sender(unique[i].from, priority_map) = NoneInt
                 /\ unique[i].uid \notin skipped )
               => \E k \in 1..Len(selected) :
                      /\ selected[k].uid = unique[i].uid
                      /\ selected[k]._priority = 3

\* a digest with a message without an address in From and a message whose
\* address is not in the table, both with priority 3
C4_Witness ==
    /\ pc = "done"
    /\ \E k \in 1..Len(digest) :
           digest[k].from = <<"(","n","o"," ","f","r","o","m",
                   ")">> /\ digest[k]._priority = 3
    /\ \E k \in 1..Len(digest) :
           /\ digest[k].from = <<"S","h","o","p"," ","<","d","@","z",".",
                   "c","o","m",">">>
           /\ <<"d","@","z",".","c","o","m">> \notin DOMAIN priority_map
           /\ digest[k]._priority = 3

\* C5: every message selected, and every message of the digest, has
\* is_newsletter true and a subject that matches no exclusion pattern in any
\* letter case; and once the loop is over every deduplicated message with
\* is_newsletter true and such a subject is selected, unless it raised
C5_ClassifierGate ==
    LET excluded(subject) ==
            \E n \in 1..Len(EXCLUDE_SUBJECT_PATTERNS) :
                Contains(Lower(subject), EXCLUDE_SUBJECT_PATTERNS[n])
    IN  /\ \A k \in 1..Len(selected) :
               selected[k].is_newsletter /\ ~excluded(selected[k].subject)
        /\ \A k \in 1..Len(digest) :
               digest[k].is_newsletter /\ ~excluded(digest[k].subject)
        /\ pc \in {"emit", "done", "aborted"} =>
               \A i \in 1..Len(unique) :
                   ( /\ unique[i].is_newsletter
                     /\ ~excluded(unique[i].subject)
                     /\ unique[i].uid \notin skipped )
                   => \E k \in 1..Len(selected) : selected[k].uid = unique[i].uid

\* a digest of one newsletter, next to a newsletter left out for its subject in
\* upper case
C5_Witness ==
    /\ pc = "done"
    /\ Len(digest) = 1
    /\ \E i \in 1..Len(unique) :
           /\ unique[i].is_newsletter
           /\ unique[i].subject = <<"V","E","R","I","F","Y"," ","y","o","u",
                   "r"," ","a","c","c","o","u","n","t">>
           /\ unique[i].uid # digest[1].uid

\* C6 as stated: a fetched message without a List-Unsubscribe header has
\* is_newsletter true whenever the word unsubscribe occurs, in any letter case,
\* in its subject, its From header or its plain body as received
C6_PermissiveDetection ==
    \A k \in 1..Len(msgs) : \A n \in 1..Len(mailbox) :
        ( /\ msgs[k].uid = UidStr(n)
          /\ ~mailbox[n].list_unsubscribe
          /\ \/ ContainsWord(OrEmpty(mailbox[n].subject), <<"u","n","s","u",
                  "b","s","c","r","i","b","e">>)
             \/ ContainsWord(OrEmpty(mailbox[n].from), <<"u","n","s","u",
                     "b","s","c","r","i","b","e">>)
             \/ ContainsWord(mailbox[n].text_part, <<"u","n","s","u","b",
                     "s","c","r","i","b","e">>) )
        => msgs[k].is_newsletter

\* C7: after the sort the messages stand by priority ascending and, within a
\* priority, by timestamp descending; they are the selected messages; and the
\* priorities [2,1,3,1] at timestamps 2 < 3 < 5 < 6 come out as
\* (1,6), (1,3), (2,2), (3,5)
C7_SortedByPriorityThenRecency ==
    pc \in {"emit", "done", "aborted"} =>
        /\ \A k \in 1..(Len(selected_sorted) - 1) :
               \/ selected_sorted[k]._priority < selected_sorted[k + 1]._priority
               \/ /\ selected_sorted[k]._priority = selected_sorted[k + 1]._priority
                  /\ selected_sorted[k]._date_ts >= selected_sorted[k + 1]._date_ts
        /\ Len(selected_sorted) = Len(selected)
        /\ \A i \in 1..Len(selected) :
               \E k \in 1..Len(selected_sorted) :
                   selected_sorted[k].uid = selected[i].uid
        /\ ( /\ mailbox = SortScenario
             /\ priority_file = SortFile
             /\ skipped = {} )
           => [k \in 1..Len(selected_sorted) |->
                  <<selected_sorted[k]._priority, selected_sorted[k]._date_ts>>]
              = << <<1, 6>>, <<1, 3>>, <<2, 2>>, <<3, 5>> >>
        /\ pc = "done" =>
               \A k \in 1..(Len(digest) - 1) :
                   \/ digest[k]._priority < digest[k + 1]._priority
                   \/ /\ digest[k]._priority = digest[k + 1]._priority
                      /\ digest[k]._date_ts >= digest[k + 1]._date_ts

\* the four messages of the example were selected in the order of their
\* timestamps, priorities [2,1,3,1], and the digest holds them sorted
C7_Witness ==
    /\ pc = "done"
    /\ mailbox = SortScenario
    /\ [k \in 1..Len(selected) |-> <<selected[k]._priority, selected[k]._date_ts>>]
       = << <<2, 2>>, <<1, 3>>, <<3, 5>>, <<1, 6>> >>
    /\ Len(digest) = 4
    /\ digest[1]._date_ts = 6

\* C8: for every message of the emit loop for which load_cache returned a
\* value, the extractor was not called, save_cache was not called, and the
\* overview and the items emitted are those of the cached value
C8_CacheHitShortCircuits ==
    \A k \in 1..Len(trace) :
        trace[k].cached # JNull =>
            /\ ~trace[k].extracted
            /\ ~trace[k].saved
            /\ JStr(trace[k].overview) = DictGet(trace[k].cached, <<"o","v",
                    "e","r","v","i","e","w">>)
            /\ JList(trace[k]._items) = DictGet(trace[k].cached, <<"i","t",
                    "e","m","s">>)
            /\ selected_sorted[k].overview = trace[k].overview
            /\ selected_sorted[k]._items = trace[k]._items

\* a second run found the record of the first and emitted its items
C8_Witness ==
    /\ run = 2
    /\ \E k \in 1..Len(trace) :
           /\ trace[k].cached # JNull
           /\ trace[k]._items # <<>>
           /\ trace[k].overview # <<>>

\* C9: save_cache(uid, data) followed by load_cache(uid), the write and the
\* read succeeding, returns a value equal to data: the same overview and the
\* same items with the same fields in the same order
C9_CacheRoundTrip ==
    (call.fn = "save_cache;load_cache" /\ call.written /\ call.readable) =>
        ret.returned = call.data

\* a result with quotes, backslashes, line breaks, a letter outside ASCII, an
\* item with a link and one without came back as written, over an older record
C9_Witness ==
    /\ call.fn = "save_cache;load_cache"
    /\ call.written
    /\ call.readable
    /\ call.data = QuotedResult
    /\ call.uid \in DOMAIN call.files
    /\ ret.returned = QuotedResult

-----------------------------------------------------------------------------
(* Claims about the sanitizer and the normalizer                             *)

\* C11: whatever markup sanitize_html is given, what it returns holds neither
\* "<script" nor "javascript:" in any letter case, also when removing one
\* occurrence joins the characters around it into a new one
C11_NoScriptNoJavascript ==
    (pc = "unit" /\ call # NoCall /\ call.fn = "sanitize_html")
        => /\ ~Contains(Lower(ret.returned), <<"<","s","c","r","i","p",
                "t">>)
           /\ ~Contains(Lower(ret.returned), <<"j","a","v","a","s","c","r",
                   "i","p","t",":">>)

\* C12: html_to_plain_text applied to its own result returns that result,
\* also for a body with an absolute URL
C12_PlainTextIdempotent ==
    (pc = "unit" /\ call # NoCall /\ call.fn = "html_to_plain_text")
        => ret.returned.twice = ret.returned.once

-----------------------------------------------------------------------------
(* Claims about failures, repeated runs and the keys of the records         *)

\* C13 as stated: a failure in the processing of one message (selection,
\* sanitization, extraction, cache write, artifact write) never ends the run
\* early; the run ends with every other message emitted and without the
\* message that failed
C13_FailureIsolation ==
    /\ pc # "aborted"
    /\ pc = "done" =>
           /\ \A k \in 1..Len(digest) :
                  /\ digest[k].uid \notin skipped
                  /\ ~trace[k].raised
                  /\ trace[k].written
           /\ \A i \in 1..Len(unique) :
                  (Passes(unique[i]) /\ unique[i].uid \notin skipped)
                      => \E k \in 1..Len(digest) : digest[k].uid = unique[i].uid

\* C14: a run without failures on the batch of a newsletter with
\* List-Unsubscribe whose sender the table lists with priority 1, a message
\* with the subject "Please confirm your email" and a second copy of the
\* first emits exactly one message, the first, with priority 1, an overview
\* that is not empty and at least one item
C14_EndToEnd ==
    (mailbox = DigestScenario /\ priority_file = DomainFile /\ pc = "done"
         /\ faults = 0)
        => /\ Len(digest) = 1
           /\ digest[1].uid = UidStr(1)
           /\ digest[1].message_id = <<"m","1">>
           /\ digest[1]._priority = 1
           /\ digest[1].overview # <<>>
           /\ Len(digest[1]._items) >= 1

\* the first run on that batch has rendered its digest, three messages
\* fetched, two of them left after deduplication
C14_Witness ==
    /\ mailbox = DigestScenario
    /\ priority_file = DomainFile
    /\ pc = "done"
    /\ run = 1
    /\ faults = 0
    /\ Len(msgs) = 3
    /\ Len(unique) = 2
    /\ \E k \in 1..Len(unique) : unique[k].subject = <<"P","l","e","a","s",
            "e"," ","c","o","n","f","i","r","m"," ","y","o","u","r"," ","e",
            "m","a","i","l">>
    /\ Len(digest) = 1

\* C15: when main() has run on a batch from an empty cache and runs on it
\* again with the same priority file, no call in either run failing, the
\* later run calls the extractor for no message and emits every message the
\* first run emitted, and no other, with the same key, priority, overview
\* and items
C15_RepeatedRunIdempotent ==
    (pc = "done" /\ run >= 2 /\ faults = 0)
        => /\ first_run.pc = "done"
           /\ \A k \in 1..Len(trace) : ~trace[k].extracted
           /\ Len(digest) = Len(first_run.digest)
           /\ \A k \in 1..Len(digest) :
                  /\ first_run.digest[k].uid = digest[k].uid
                  /\ first_run.digest[k].safe_id = digest[k].safe_id
                  /\ first_run.digest[k]._priority = digest[k]._priority
                  /\ first_run.digest[k].overview = digest[k].overview
                  /\ first_run.digest[k]._items = digest[k]._items

\* a second run has rendered a digest of four messages, one of them with
\* items
C15_Witness ==
    /\ pc = "done"
    /\ run = 2
    /\ faults = 0
    /\ Len(digest) = 4
    /\ Len(trace) = 4
    /\ \E k \in 1..Len(digest) : digest[k]._items # <<>>

\* C16 as stated: in and after any run, the record of a key in CACHE_DIR is
\* what a successful call of the extractor returned for the message of that
\* key, and a message whose extraction raised has no record
C16_RecordOnlyFromSuccess ==
    \A k \in 1..Len(trace) :
        /\ trace[k].raised => trace[k].safe_id \notin DOMAIN cache
        /\ trace[k].safe_id \in DOMAIN cache =>
               cache[trace[k].safe_id] =
                   JsonDumps(ExtractSummary(selected_sorted[k], trace[k].safe_id,
                                            USE_API, StubResponse))

\* C17 as stated: the cache record and the files of an emitted message are
\* named after the key deduplication used for it, no two messages emitted in
\* one run share a record or a file, and a first run that ends has written as
\* many JSON files as it emitted messages
C17_KeysAgree ==
    /\ \A k \in 1..Len(trace) :
           trace[k].safe_id = safe_id_for(MessageKey(selected_sorted[k]))
    /\ \A j, k \in 1..Len(trace) :
           j # k => trace[j].safe_id # trace[k].safe_id
    /\ (pc = "done" /\ run = 1) => Cardinality(DOMAIN artifacts) = Len(digest)

\* C18 as stated: a message whose date gives the timestamp 0 is selected and
\* emitted like any other, its sort timestamp is a time of the clock during
\* the run, and all such messages of one run have the same sort timestamp
C18_SameNow ==
    LET late(uid) == \E i \in 1..Len(unique) :
                         /\ unique[i].uid = uid
                         /\ parse_date_to_ts(Some(unique[i].date)) = 0
        given == {k \in 1..Len(selected) : late(selected[k].uid)}
    IN  /\ \A k \in given : selected[k]._date_ts \in Now0..clock
        /\ \A j, k \in given : selected[j]._date_ts = selected[k]._date_ts
        /\ pc = "done" =>
               \A i \in 1..Len(unique) :
                   (Passes(unique[i]) /\ late(unique[i].uid)
                        /\ unique[i].uid \notin skipped)
                       => \E k \in 1..Len(digest) : digest[k].uid = unique[i].uid

\* whether the raw message is malformed: no usable date, no From header or
\* an empty body
Malformed(raw) ==
    raw.date = NoneInt \/ raw.from = None \/ raw.text_part = <<>>

\* C19 as stated: a malformed message the search returns has a transport
\* uid, so it is in the fetched batch, and in a run without failures it is
\* emitted unless it is a duplicate or the classifier leaves it out
C19_MalformedKept ==
    /\ pc # "start" =>
           \A n \in 1..Len(mailbox) :
               Malformed(mailbox[n])
                   => \E k \in 1..Len(msgs) : msgs[k].uid = UidStr(n)
    /\ (pc = "done" /\ faults = 0) =>
           \A k \in 1..Len(msgs) : \A n \in 1..Len(mailbox) :
               ( /\ msgs[k].uid = UidStr(n)
                 /\ Malformed(mailbox[n])
                 /\ Passes(msgs[k])
                 /\ \A j \in 1..(k - 1) : MessageKey(msgs[j]) # MessageKey(msgs[k]) )
                   => \E d \in 1..Len(digest) : digest[d].uid = msgs[k].uid

-----------------------------------------------------------------------------
(* Claims about the cache files, the extractor's results and the stages    *)

Discarded(resp) ==
    LET data == JsonLoads(resp)
    IN  \/ ~data.ok
        \/ data.v.t # "dict"
        \/ ~DictHas(data.v, <<"o","v","e","r","v","i","e","w">>)
        \/ ~DictHas(data.v, <<"i","t","e","m","s">>)

PostPassLits ==
    { <<"u","n","s","u","b","s","c","r","i","b","e">>, <<"o","d","h","l",
            "U00E1","s","i","t">>, <<"m","a","n","a","g","e"," ","y","o",
            "u","r"," ","s","u","b","s","c","r","i","p","t","i","o","n">>,
      <<"p","r","e","f","e","r","e","n","c","e","s">>, <<"p","r","i","v",
              "a","c","y"," ","p","o","l","i","c","y">>, <<"v","i","e","w",
              " ","i","n"," ","b","r","o","w","s","e","r">> }

\* whether summary plus full_text of the item matches one of them
IsBoilerplateItem(it) ==
    FindAny(Lower(DictGet(it, <<"s","u","m","m","a","r","y">>).v \o <<" ">>
                      \o DictGet(it, <<"f","u","l","l","_","t","e","x",
                              "t">>).v),
            PostPassLits, 1) # 0

\* C23 as stated: no item emitted for a message, extracted in this run or
\* loaded from the record an earlier run wrote, matches a pattern of the
\* post-pass
C23_NoBoilerplateItems ==
    \A k \in 1..Len(trace) :
        \A n \in 1..Len(trace[k]._items) : ~IsBoilerplateItem(trace[k]._items[n])

\* the items the loop of summarize.py:63-85 keeps for the text and markup
KeptCandidates(text, html) ==
    CandidateItems(CandidateParagraphs(
                       _strip_technical_summarize(_to_plain_text(html, text))),
                   1, {}, <<>>)

C25_PriorityTableLoaded ==
    pc # "start" =>
        LET rows == priority_file.rows
            email(k) == Lower(Strip(OrEmpty(rows[k].email)))
            pr(k) == Strip(OrEmpty(rows[k].priority))
            kept == {k \in 1..Len(rows) :
                        email(k) # <<>> /\ pr(k) # <<>> /\ IsIntLiteral(pr(k))}
        IN  /\ ~priority_file.exists => priority_map = EmptyMap
            /\ priority_file.exists =>
                   /\ DOMAIN priority_map = {email(k) : k \in kept}
                   /\ \A k \in kept :
                          (\A j \in kept : email(j) = email(k) => j <= k)
                              => priority_map[email(k)] = ParseInt(pr(k))
            /\ pc = "aborted" => faults > 0

\* a run has ended on a file with a blank address, two rows of one address
\* in different case, a priority that is a word and one that is missing: the
\* table holds b@x.com with the later 1 and a@x.com with -1, which the
\* emitted message carries
C25_Witness ==
    /\ pc = "done"
    /\ priority_file = MessyFile
    /\ DOMAIN priority_map = {<<"a","@","x",".","c","o","m">>, <<"b","@",
            "x",".","c","o","m">>}
    /\ priority_map[<<"b","@","x",".","c","o","m">>] = 1
    /\ priority_map[<<"a","@","x",".","c","o","m">>] = 0 - 1
    /\ Len(digest) = 1
    /\ digest[1]._priority = 0 - 1

\* the stages before the sort, in any state of a run: the messages selected
\* are among the deduplicated ones, which hold no key twice, each has passed
\* the classifier and the subject filter, carries the priority resolved from
\* the table and the sanitized form of its markup
EarlierStages ==
    /\ \A i, j \in 1..Len(unique) :
           i # j => MessageKey(unique[i]) # MessageKey(unique[j])
    /\ \A k \in 1..Len(selected) :
           /\ \E i \in 1..Len(unique) :
                  /\ unique[i].uid = selected[k].uid
                  /\ pc = "select" => i < idx
           /\ Passes(selected[k])
           /\ selected[k]._priority =
                  ResolvedPriority(selected[k].from, priority_map)
           /\ selected[k].html = sanitize_html(selected[k].raw_html)

\* C26 as stated: the stages of a run happen in the order Deduplicate,
\* Classify and filter, ResolvePriority, Sanitize, Extract, Sort: when the
\* sorted collection exists every message of it has been extracted or
\* served from the cache
C26_SortAfterExtract ==
    /\ EarlierStages
    /\ \A k \in 1..Len(selected_sorted) :
           /\ k <= Len(trace)
           /\ "overview" \in DOMAIN selected_sorted[k]

\* C26, amended: the stages happen in the order Deduplicate, Classify and
\* filter, ResolvePriority, Sanitize, Sort, Extract: when a message has been
\* extracted or served from the cache, the collection holds every selected
\* message in the order of the key (priority ascending, timestamp
\* descending), the messages were taken in that order, and those not yet
\* reached carry no summary
C26_SortBeforeExtract ==
    /\ EarlierStages
    /\ trace # <<>> =>
           /\ Len(selected_sorted) = Len(selected)
           /\ \A k \in 1..Len(selected) :
                  \E n \in 1..Len(selected_sorted) :
                      selected_sorted[n].uid = selected[k].uid
           /\ \A j, k \in 1..Len(selected_sorted) :
                  j < k =>
                      \/ selected_sorted[j]._priority < selected_sorted[k]._priority
                      \/ /\ selected_sorted[j]._priority
                                = selected_sorted[k]._priority
                         /\ selected_sorted[j]._date_ts
                                >= selected_sorted[k]._date_ts
           /\ Len(trace) <= Len(selected_sorted)
           /\ \A k \in 1..Len(selected_sorted) :
                  /\ k <= Len(trace) => trace[k].uid = selected_sorted[k].uid
                  /\ (k > Len(trace) /\ pc = "emit" /\ k > idx)
                         => "overview" \notin DOMAIN selected_sorted[k]

\* the first message of the sorted collection, which was not the first to be
\* selected, has been extracted and the second has not
C26_Witness ==
    /\ pc = "emit"
    /\ Len(selected_sorted) >= 2
    /\ Len(trace) = 1
    /\ trace[1].extracted
    /\ selected_sorted[1].uid # selected[1].uid
    /\ "overview" \in DOMAIN selected_sorted[1]
    /\ "overview" \notin DOMAIN selected_sorted[2]

\* C27: a call of save_cache(uid, data) leaves the record of every other key
\* as it was and, when its write succeeds, leaves under uid a record that
\* loads as data, whatever was there; after two calls with one key the record
\* loads as the data of the later call, after two calls with two keys each
\* record loads as the data of its own call
C27_WritesPerKey ==
    call.fn = "save_cache;save_cache" =>
        LET before == call.files
            first == ret.returned.first
            second == ret.returned.second
        IN  /\ DOMAIN first \subseteq DOMAIN before \cup {call.uid1}
            /\ DOMAIN second \subseteq DOMAIN first \cup {call.uid2}
            /\ \A k \in DOMAIN before \ {call.uid1} :
                   k \in DOMAIN first /\ first[k] = before[k]
            /\ \A k \in DOMAIN first \ {call.uid2} :
                   k \in DOMAIN second /\ second[k] = first[k]
            /\ call.written1 => load_cache(first, call.uid1, TRUE) = call.data1
            /\ call.written2 => load_cache(second, call.uid2, TRUE) = call.data2
            /\ (call.written1 /\ call.uid1 # call.uid2)
                   => load_cache(second, call.uid1, TRUE) = call.data1

\* two writes with one key over an older record: the record is that of the
\* later write, which differs from the earlier
C27_Witness ==
    /\ call.fn = "save_cache;save_cache"
    /\ call.uid1 = call.uid2
    /\ call.uid1 \in DOMAIN call.files
    /\ call.written1
    /\ call.written2
    /\ call.data1 = QuotedResult
    /\ call.data2 = EmptySummary
    /\ ret.returned.first[call.uid1] # ret.returned.second[call.uid1]
    /\ load_cache(ret.returned.second, call.uid1, TRUE) = EmptySummary

\* C28: when the first message of the batch with some key does not pass the
\* classifier or the subject filter, no message with that key is selected or
\* emitted, and the only message of that key among the deduplicated ones is
\* that first one, whatever the later messages of the key are
C28_RejectedKeyStaysOut ==
    \A i \in 1..Len(msgs) :
        ( /\ \A j \in 1..(i - 1) : MessageKey(msgs[j]) # MessageKey(msgs[i])
          /\ ~Passes(msgs[i]) )
        => /\ \A k \in 1..Len(unique) :
                  MessageKey(unique[k]) = MessageKey(msgs[i])
                      => unique[k].uid = msgs[i].uid
           /\ \A k \in 1..Len(selected) :
                  MessageKey(selected[k]) # MessageKey(msgs[i])
           /\ \A k \in 1..Len(selected_sorted) :
                  MessageKey(selected_sorted[k]) # MessageKey(msgs[i])
           /\ \A k \in 1..Len(digest) :
                  MessageKey(digest[k]) # MessageKey(msgs[i])

\* a run has ended whose batch held a message that is no newsletter and,
\* later, a newsletter with the same Message-ID: the digest holds another
\* message only
C28_Witness ==
    /\ pc = "done"
    /\ Len(digest) = 1
    /\ \E i, j \in 1..Len(msgs) :
           /\ i < j
           /\ MessageKey(msgs[i]) = MessageKey(msgs[j])
           /\ ~Passes(msgs[i])
           /\ Passes(msgs[j])
           /\ digest[1].uid \notin {msgs[i].uid, msgs[j].uid}

\* C29: a step changes the record of a key only in the turn of the emit loop
\* for a message of that key in which load_cache returned None, the read of
\* the record having failed or its text being no JSON text; a turn in which
\* load_cache returned a value does not call save_cache and leaves every
\* record as it was
C29_ReadableRecordKept ==
    [][ LET turn == pc = "emit" /\ Len(trace') = Len(trace) + 1
            e == trace'[Len(trace')]
        IN  /\ \A sid \in DOMAIN cache :
                   \/ sid \in DOMAIN cache' /\ cache'[sid] = cache[sid]
                   \/ /\ turn
                      /\ e.safe_id = sid
                      /\ e.cached = JNull
                      /\ ~e.readable \/ load_cache(cache, sid, TRUE) = JNull
            /\ (turn /\ e.cached # JNull) => (~e.saved /\ cache' = cache)
            /\ (turn /\ e.saved) =>
                   \/ e.safe_id \notin DOMAIN cache
                   \/ ~e.readable
                   \/ load_cache(cache, e.safe_id, TRUE) = JNull
      ]_vars

\* a second run has ended in which a message was served from the record the
\* first run wrote: the record is still the text of what was loaded, and the
\* items are those the first run emitted
C29_Witness ==
    /\ run = 2
    /\ pc = "done"
    /\ first_run.pc = "done"
    /\ \E k \in 1..Len(trace) :
           /\ trace[k].exists
           /\ trace[k].cached # JNull
           /\ ~trace[k].saved
           /\ cache[trace[k].safe_id] = JsonDumps(trace[k].cached)
           /\ trace[k]._items # <<>>
           /\ first_run.digest[k]._items = trace[k]._items

\* the calls of the log made for the message of entry k under its source
SameMessage(j, k) ==
    imap.ops[j].src = imap.ops[k].src /\ imap.ops[j].uid = imap.ops[k].uid

\* the function is past the calls of lines 143-155 for the message of entry k
Archived(k) ==
    ~ ( /\ imap.pc \in {"seen", "move", "copy", "deleted", "expunge"}
        /\ imap.src = imap.ops[k].src
        /\ imap.ids[imap.n] = imap.ops[k].uid )

\* C30 as stated: a message skipped for a source, for its From header or its
\* Message-ID, is not returned for it and no call is made for it, and a
\* message that was only ever skipped has the flags and the place it had; a
\* returned message had \Seen added and then a move attempted, after it was
\* appended; copy, \Deleted and expunge are attempted only after its move
\* failed; and a message once appended stays in the result
C30_IngestSafety ==
    imap.pc # "none" =>
        /\ \A k \in 1..Len(imap.ops) :
               imap.ops[k].op = "skip" =>
                   /\ \A j \in 1..Len(imap.ops) :
                          SameMessage(j, k) => imap.ops[j].op = "skip"
                   /\ \A m \in 1..Len(imap.messages) :
                          ~ ( /\ imap.messages[m].uid = imap.ops[k].uid
                              /\ imap.messages[m].source = imap.ops[k].src )
        /\ \A uid \in DOMAIN imap.server :
               ( /\ \E k \in 1..Len(imap.ops) :
                        imap.ops[k].uid = uid /\ imap.ops[k].op = "skip"
                 /\ \A k \in 1..Len(imap.ops) :
                        imap.ops[k].uid = uid => imap.ops[k].op = "skip" )
               => imap.server[uid] = imap.before[uid]
        /\ \A k \in 1..Len(imap.ops) :
               (imap.ops[k].op = "append" /\ Archived(k)) =>
                   \E j \in (k + 1)..Len(imap.ops) :
                       /\ SameMessage(j, k)
                       /\ imap.ops[j].op = "seen"
                       /\ imap.ops[j].ok
                       /\ \E i \in (j + 1)..Len(imap.ops) :
                              SameMessage(i, k) /\ imap.ops[i].op = "move"
        /\ \A j \in 1..Len(imap.ops) :
               imap.ops[j].op \in {"copy", "deleted", "expunge"} =>
                   \E i \in 1..(j - 1) :
                       /\ SameMessage(i, j)
                       /\ imap.ops[i].op = "move"
                       /\ ~imap.ops[i].ok
        /\ \A k \in 1..Len(imap.ops) :
               imap.ops[k].op = "append" =>
                   \E m \in 1..Len(imap.messages) :
                       /\ imap.messages[m].uid = imap.ops[k].uid
                       /\ imap.messages[m].source = imap.ops[k].src
=============================================================================
